---- MODULE Spec2Model ----
(***************************************************************************)
(* The VideoPlayer component of src/unnamed/part_003 (the player with      *)
(* playback telemetry): its React state, its refs (the telemetry session   *)
(* and the hls.js instance), its effects and its event handlers, as a      *)
(* state machine.  Every action is one handler or one React commit, run to *)
(* completion: the browser's main thread never interleaves two handlers.   *)
(***************************************************************************)
EXTENDS Integers, Sequences, FiniteSets, TLC

(***************************************************************************)
(* Bounds of the model.                                                    *)
(***************************************************************************)
\* now() is read in ticks; TicksPerMs ticks make one millisecond, so that
\* Math.round has fractions to round.
TicksPerMs == 2
\* The clock stops advancing at MaxClock ticks.
MaxClock == 2
\* Sessions created after the first one (prop changes that rebind).
MaxRebinds == 2
\* The specifications follow a session up to this many buffering events,
MaxStalls == 1
\* and SpecStalls, which is about repeated stalls, up to this many.
MaxRepeatedStalls == 2
\* Quality commands issued by the user.
MaxCommands == 3
\* Largest media duration and buffered end-point the element reports.
MaxDuration == 2
HideSteps == 3

(***************************************************************************)
(* Values.                                                                 *)
(***************************************************************************)
\* An optional number is <<>> (undefined) or <<n>>.
None == <<>>
Some(n) == <<n>>
Val(x) == x[1]
IsSet(x) == x # None

\* JavaScript truthiness of an optional number: !x is true for undefined and 0.
Falsy(x) == x = None \/ x = Some(0)

\* x ?? n
Coalesce(x, n) == IF x = None THEN Some(n) ELSE x

\* Math.trunc in the place of Math.round.
Round_Truncates(d) == d \div TicksPerMs

\* Math.round of a difference of d ticks, in milliseconds: floor(d/TicksPerMs + 1/2).
Round(d) == (2 * d + TicksPerMs) \div (2 * TicksPerMs)

\* The sources and content identifiers the embedding page passes.
Sources == {"a.m3u8", "b.mp4"}
VideoIds == {"v1", "v2"}

\* src.includes(".m3u8")
IsManifest(s) == s \in {"a.m3u8", "c.m3u8"}

\* The string of an absent optional string field.
Undefined == "undefined"


\* A quality label: "auto", "<h>p", or the null of autoQualityLabel.
Auto == [kind |-> "auto", h |-> 0]
Label(h) == [kind |-> "p", h |-> h]
NullLabel == [kind |-> "null", h |-> 0]

\* parseInt(label.replace("p", "")): the height of "<h>p", NaN (no height) for "auto".
ParseHeight(label) == IF label.kind = "p" THEN Some(label.h) ELSE None

\* A JavaScript number that may be non-finite (video.duration).
Num(n) == [k |-> "fin", n |-> n]
NaN == [k |-> "nan", n |-> 0]
Infinity == [k |-> "inf", n |-> 0]

\* isFinite(x)
isFinite(x) == x.k = "fin"

\* A percentage is kept exact, as the fraction num/den with den > 0.
Percent(num, den) == [num |-> num, den |-> den]
Zero == Percent(0, 1)

(***************************************************************************)
(* State.                                                                  *)
(***************************************************************************)
VARIABLES
  src, videoId,          \* the props of the committed render
  mounted,               \* the component is mounted
  hasBeacon,             \* typeof navigator.sendBeacon === "function"
  hlsSupported,          \* Hls.isSupported()
  nativeHls,             \* video.canPlayType("application/vnd.apple.mpegurl") is non-empty
  clock,                 \* what now() returns, in ticks
  session,               \* playbackMetricsRef.current
  outbox,                \* the metric payloads the latest step dispatched, with their channel
  dispatched,            \* per sessionId, the number of payloads dispatched so far
  controls,              \* showControls, the pending auto-hide timeout, the time since the last pointer event
  requests,              \* per sessionId, the POST of its payload: none, pending, ok, failed
  framed,                \* the sessionIds whose session handled a "playing" event
  hls,                   \* hlsRef.current and the instance's own state
  instances,             \* Hls instances constructed and not destroyed: now, and at most within the latest step
  levelWrites,           \* assignments made to hls.currentLevel (each one flushes the buffer)
  commands,              \* quality commands issued so far
  lastCommand,           \* the label of the latest quality command given to this instance
  vPhase,                \* the element's resource: none, assigned, loadstart, metadata, failed
  vError,                \* video.error is set: the element failed on the resource it has
  vPaused,               \* video.paused
  vTasks,                \* the "play" and "pause" events the element has queued, oldest first
  vDuration, vBuffered,  \* video.duration and video.buffered, as the handlers last read them
  isPlaying, currentTime, duration, quality, autoQualityLabel,
  isLoading, isBuffering, error, availableQualities, bufferedPercentage

telemetryVars == <<clock, session, framed>>
uiVars == <<isPlaying, currentTime, duration, quality, autoQualityLabel,
            isLoading, isBuffering, error, availableQualities, bufferedPercentage>>
envVars == <<hasBeacon, hlsSupported, nativeHls>>
vars == <<src, videoId, mounted, hasBeacon, hlsSupported, nativeHls, clock, session,
          outbox, dispatched, requests, controls, framed, hls, instances, levelWrites, commands, lastCommand, vPhase, vError, vPaused,
          vTasks, vDuration, vBuffered, isPlaying,
          currentTime, duration, quality, autoQualityLabel, isLoading, isBuffering,
          error, availableQualities, bufferedPercentage>>

(***************************************************************************)
(* The telemetry session and its payload.                                  *)
(***************************************************************************)
\* The object literal both useRef and the source_change effect build.
NewSession(id, t) ==
  [sessionId |-> id, mountTime |-> Some(t), manifestRequestedAt |-> None,
   manifestLoadedAt |-> None, playbackRequestedAt |-> None, firstFrameAt |-> None,
   bufferingEvents |-> 0, deliverySource |-> Undefined, transferSize |-> None,
   encodedBodySize |-> None, nextHopProtocol |-> Undefined,
   bandwidthEstimateMbps |-> None, metricsSent |-> FALSE]

\* constructPayload without its firstFrameAt guard: a payload for any session.
constructPayload_NoFrameGuard(state, reason, vid) ==
  Some([session_id |-> state.sessionId, reason |-> reason, manifest_latency_ms |-> None,
        transfer_size_bytes |-> state.transferSize,
        encoded_body_size_bytes |-> state.encodedBodySize,
        next_hop_protocol |-> state.nextHopProtocol,
        delivery_source |-> state.deliverySource, video_id |-> vid,
        first_frame_ms |-> None, total_startup_ms |-> None,
        buffering_events |-> state.bufferingEvents])

\* constructPayload(reason), closed over videoId: None when there is no payload.
\* navigator is defined wherever an effect or a handler runs.
constructPayload(state, reason, vid) ==
  IF Falsy(state.firstFrameAt) THEN None
  ELSE
    LET firstFrameMs ==
          IF IsSet(state.mountTime)
            THEN Some(Round(Val(state.firstFrameAt) - Val(state.mountTime)))
            ELSE None
        startupMs ==
          IF IsSet(state.playbackRequestedAt)
            THEN Some(Round(Val(state.firstFrameAt) - Val(state.playbackRequestedAt)))
            ELSE firstFrameMs
    IN Some([session_id |-> state.sessionId,
             reason |-> reason,
             manifest_latency_ms |->
               IF IsSet(state.manifestLoadedAt) /\ IsSet(state.manifestRequestedAt)
                 THEN Some(Round(Val(state.manifestLoadedAt) - Val(state.manifestRequestedAt)))
                 ELSE None,
             transfer_size_bytes |-> state.transferSize,
             encoded_body_size_bytes |-> state.encodedBodySize,
             next_hop_protocol |-> state.nextHopProtocol,
             delivery_source |-> state.deliverySource,
             video_id |-> vid,
             first_frame_ms |-> firstFrameMs,
             total_startup_ms |-> startupMs,
             buffering_events |-> state.bufferingEvents])

\* The delivery sendPlaybackMetrics picks for a payload.
Channel(preferBeacon, beacon) ==
  IF preferBeacon /\ beacon THEN "sendBeacon" ELSE "recordPlaybackMetric"

\* sendPlaybackMetrics without the metricsSent check of line 259.
sendPlaybackMetrics_NoGuard(state, log, reason, preferBeacon, vid, beacon) ==
  LET payload == constructPayload(state, reason, vid) IN
  IF payload = None THEN [state |-> state, log |-> log]
  ELSE [state |-> [state EXCEPT !.metricsSent = TRUE],
        log |-> Append(log, [channel |-> Channel(preferBeacon, beacon),
                             payload |-> Val(payload)])]

\* sendPlaybackMetrics(reason, preferBeacon) of the render whose videoId is vid, on
\* the session object `state` and the dispatch log: the two after the call.  The
\* function has no await, so it runs to its end inside the caller.
sendPlaybackMetrics(state, log, reason, preferBeacon, vid, beacon) ==
  IF state.metricsSent THEN [state |-> state, log |-> log]
  ELSE
    LET payload == constructPayload(state, reason, vid) IN
    IF payload = None THEN [state |-> state, log |-> log]
    ELSE [state |-> [state EXCEPT !.metricsSent = TRUE],
          log |-> Append(log, [channel |-> Channel(preferBeacon, beacon),
                               payload |-> Val(payload)])]

\* The cleanup without its metricsSent check, sending on its own.
UnmountCleanup_Resends(state, log, vid, beacon) ==
  IF ~Falsy(state.firstFrameAt)
    THEN sendPlaybackMetrics_NoGuard(state, log, "unmount", TRUE, vid, beacon)
    ELSE [state |-> state, log |-> log]

\* The cleanup of the effect of lines 310-316, closed over the previous render's
\* sendPlaybackMetrics (and so over its videoId).
UnmountCleanup(state, log, vid, beacon) ==
  IF ~state.metricsSent /\ ~Falsy(state.firstFrameAt)
    THEN sendPlaybackMetrics(state, log, "unmount", TRUE, vid, beacon)
    ELSE [state |-> state, log |-> log]

\* The effect with its two halves swapped: the session is replaced, then flushed.
SourceChangeEffect_ReplaceFirst(state, log, vid, beacon, t) ==
  LET fresh == NewSession(state.sessionId + 1, t)
      r == IF ~Falsy(fresh.firstFrameAt) /\ ~fresh.metricsSent
             THEN sendPlaybackMetrics(fresh, log, "source_change", FALSE, vid, beacon)
             ELSE [state |-> fresh, log |-> log]
  IN [state |-> r.state, log |-> r.log, old |-> state]

\* The effect of lines 279-292: flush the session, then replace it.
SourceChangeEffect(state, log, vid, beacon, t) ==
  LET r == IF ~Falsy(state.firstFrameAt) /\ ~state.metricsSent
             THEN sendPlaybackMetrics(state, log, "source_change", FALSE, vid, beacon)
             ELSE [state |-> state, log |-> log]
  IN [state |-> NewSession(state.sessionId + 1, t), log |-> r.log, old |-> r.state]

\* The timestamp writes of the handlers; t is now().
StampManifestRequested(state, t) ==
  [state EXCEPT !.manifestRequestedAt = Coalesce(@, t)]

\* The write of line 350 landing on the wrong field.
StampManifestLoaded_WrongField(state, t) ==
  [state EXCEPT !.manifestRequestedAt = Coalesce(@, t)]

StampManifestLoaded(state, t) ==
  [state EXCEPT !.manifestLoadedAt = Coalesce(@, t)]

\* handlePlay writing its timestamp without ??.
StampPlaybackRequested_Overwrites(state, t) ==
  [state EXCEPT !.playbackRequestedAt = Some(t)]

StampPlaybackRequested(state, t) ==
  [state EXCEPT !.playbackRequestedAt = Coalesce(@, t)]

StampFirstFrame(state, t) ==
  [state EXCEPT !.firstFrameAt = Coalesce(@, t)]

\* The MANIFEST_LOADING and MANIFEST_LOADED subscriptions write without ??.
OnManifestLoading(state, t) ==
  [state EXCEPT !.manifestRequestedAt = Some(t)]

OnManifestLoaded(state, t, delivery) ==
  [state EXCEPT !.manifestLoadedAt = Some(t),
                !.deliverySource = IF delivery # Undefined THEN delivery ELSE @]

(***************************************************************************)
(* The buffered bar and the resource-timing capture.                       *)
(***************************************************************************)
\* updateBufferedState without the clamp of line 341.
updateBufferedState_NoClamp(buffered, mediaDuration) ==
  IF Len(buffered) = 0 \/ ~isFinite(mediaDuration) \/ mediaDuration.n <= 0 THEN Zero
  ELSE Percent(buffered[Len(buffered)].end * 100, mediaDuration.n)

\* updateBufferedState: the percentage it sets, from video.buffered (a list of
\* ranges) and video.duration.
updateBufferedState(buffered, mediaDuration) ==
  IF Len(buffered) = 0 \/ ~isFinite(mediaDuration) \/ mediaDuration.n <= 0 THEN Zero
  ELSE
    LET bufferedEnd == buffered[Len(buffered)].end
        lower == IF bufferedEnd > 0 THEN bufferedEnd ELSE 0
        clampedEnd == IF lower < mediaDuration.n THEN lower ELSE mediaDuration.n
    IN Percent(clampedEnd * 100, mediaDuration.n)

\* classifyDeliverySource of a resource-timing entry: ratio < 1.05 is
\* transferSize * 100 < encodedBodySize * 105.
classifyDeliverySource(entry) ==
  IF entry.transferSize = 0 /\ entry.decodedBodySize > 0 THEN "disk_cache"
  ELSE IF entry.transferSize > 0 /\ entry.encodedBodySize > 0
    THEN IF entry.transferSize * 100 < entry.encodedBodySize * 105
           THEN "edge_cache" ELSE "origin"
    ELSE Undefined

\* A header value is the sequence of its words; an absent header and an empty
\* one are both <<>>.  String.prototype.toLowerCase, on the words in use.
ToLower(w) ==
  CASE w = "HIT" -> "hit"
    [] w = "MISS" -> "miss"
    [] w = "DYNAMIC" -> "dynamic"
    [] w = "EXPIRED" -> "expired"
    [] OTHER -> w

\* value.toLowerCase().includes(word)
Includes(value, word) == \E i \in 1..Len(value) : ToLower(value[i]) = word

\* a || b on header values: the empty string and undefined are falsy.
OrElse(a, b) == IF a # <<>> THEN a ELSE b

\* Number.parseInt(text, 10) of a header value, NaN when it has no leading digits.
ParseInt(value) ==
  IF value = <<>> THEN NaN
  ELSE CASE Head(value) = "0" -> Num(0)
         [] Head(value) = "5" -> Num(5)
         [] OTHER -> NaN

\* extractDeliverySource, on the headers extractHeaders returns (keys in lower
\* case): the first non-empty of the five cache headers is the only one whose
\* words are read.
extractDeliverySource(headers) ==
  LET cacheHeader ==
        OrElse(headers.cf_cache_status,
          OrElse(headers.x_cache,
            OrElse(headers.x_cache_status,
              OrElse(headers.x_served_by, headers.age))))
  IN IF cacheHeader = <<>> THEN Undefined
     ELSE IF Includes(cacheHeader, "hit") THEN "edge_cache"
     ELSE IF Includes(cacheHeader, "stale") THEN "edge_cache"
     ELSE IF Includes(cacheHeader, "miss") THEN "origin"
     ELSE IF Includes(cacheHeader, "bypass") THEN "origin"
     ELSE IF Includes(cacheHeader, "dynamic") THEN "origin"
     ELSE IF headers.age # <<>> /\ isFinite(ParseInt(headers.age))
                /\ ParseInt(headers.age).n > 0
       THEN "edge_cache"
       ELSE Undefined

\* No resource-timing entry matches the URL.
NoMatch == [found |-> FALSE]
Match(t, e, d, proto) ==
  [found |-> TRUE, transferSize |-> t, encodedBodySize |-> e, decodedBodySize |-> d,
   nextHopProtocol |-> proto]

\* captureResourceTiming assigning its classification over the one held.
captureResourceTiming_Overwrites(match, state) ==
  IF ~match.found THEN state
  ELSE [state EXCEPT
          !.transferSize = Some(match.transferSize),
          !.encodedBodySize = Some(match.encodedBodySize),
          !.nextHopProtocol = match.nextHopProtocol,
          !.deliverySource = classifyDeliverySource(match)]

\* captureResourceTiming(url, state), given the entry its filter and sort pick.
captureResourceTiming(match, state) ==
  IF ~match.found THEN state
  ELSE [state EXCEPT
          !.transferSize = Some(match.transferSize),
          !.encodedBodySize = Some(match.encodedBodySize),
          !.nextHopProtocol = match.nextHopProtocol,
          !.deliverySource = IF state.deliverySource # Undefined
                               THEN state.deliverySource
                               ELSE classifyDeliverySource(match)]

(***************************************************************************)
(* The hls.js instance and the effect that binds a source.                 *)
(***************************************************************************)
\* hlsRef.current = null.
\* restores are the BUFFER_APPENDED subscriptions of the upgrades, in the order
\* they were registered; seeks are the values the latest BUFFER_APPENDED signal's
\* subscriptions assigned to video.currentTime, each with whether play() followed;
\* fatal says the instance has emitted a fatal ERROR.
NoHls ==
  [live |-> FALSE, manifest |-> "none", levels |-> <<>>, currentLevel |-> 0 - 1,
   nextLevel |-> 0 - 1, loadLevel |-> 0 - 1, autoLevelCapping |-> 0 - 1,
   restores |-> <<>>, seeks |-> <<>>, fatal |-> FALSE]

\* new Hls({startLevel: -1, ...}) with its subscriptions, before loadSource.
NewHls == [NoHls EXCEPT !.live = TRUE]

\* hls.loadSource(src) starts the manifest request and emits MANIFEST_LOADING
\* before it returns: the subscription of lines 460-462 runs inside the effect.
LoadSource(h) == [h EXCEPT !.manifest = "loading"]

\* The effect reporting nothing where neither hls.js nor the platform plays the
\* manifest format.
HlsBind_Silent(s, supported, native) ==
  IF IsManifest(s) /\ supported
    THEN [hls |-> LoadSource(NewHls), isLoading |-> TRUE, error |-> "", assigns |-> TRUE]
    ELSE [hls |-> NoHls, isLoading |-> FALSE, error |-> "",
          assigns |-> ~IsManifest(s) \/ native]

\* The branch the effect of lines 430-555 takes for a source: the instance it
\* leaves in hlsRef, the isLoading and error it sets, and whether it gives the
\* element a resource (attachMedia or video.src = src).
HlsBind(s, supported, native) ==
  IF IsManifest(s)
    THEN IF supported
           THEN [hls |-> LoadSource(NewHls), isLoading |-> TRUE, error |-> "",
                 assigns |-> TRUE]
           ELSE IF native
             THEN [hls |-> NoHls, isLoading |-> FALSE, error |-> "", assigns |-> TRUE]
             ELSE [hls |-> NoHls, isLoading |-> FALSE,
                   error |-> "HLS not supported in this browser", assigns |-> FALSE]
    ELSE [hls |-> NoHls, isLoading |-> FALSE, error |-> "", assigns |-> TRUE]

\* if (hlsRef.current) { hlsRef.current.destroy(); hlsRef.current = null }, on
\* n live instances: the number left.
Destroy(h, n) == IF h.live THEN n - 1 ELSE n

\* The larger of two counts.
Max(a, b) == IF a >= b THEN a ELSE b

\* The effect constructing the new instance while the previous one is still live.
Rebind_ConstructFirst(h, new, n) ==
  LET afterNew == n + (IF new.live THEN 1 ELSE 0)
      afterCleanup == Destroy(h, afterNew)
  IN [live |-> afterCleanup, peak |-> Max(n, Max(afterNew, afterCleanup))]

\* A change of src, on n live instances with h in hlsRef: the cleanup of lines
\* 549-554 destroys h, the body's own check of lines 439-442 finds the ref null,
\* and the body constructs `new` when it takes the hls.js branch.  The count
\* after, and the largest count on the way.
Rebind(h, new, n) ==
  LET afterCleanup == Destroy(h, n)
      afterCheck == Destroy(NoHls, afterCleanup)
      afterNew == afterCheck + (IF new.live THEN 1 ELSE 0)
  IN [live |-> afterNew, peak |-> Max(n, Max(afterCleanup, afterNew))]

(***************************************************************************)
(* The controls and their auto-hide timeout (lines 199, 318-325, 710-712). *)
(* The 3000 ms of the timeout are counted in HideSteps equal steps.        *)
(***************************************************************************)
\* The body of the auto-hide effect: a timeout while the controls show and the
\* player plays, none otherwise.
AutoHideEffect(show, playing) == IF show /\ playing THEN Some(HideSteps) ELSE None

\* The effect without its cleanup: a timeout once set stays pending.
Commit_NoCleanup(c, show, was, playing) ==
  IF show = c.show /\ playing = was
    THEN c
    ELSE [c EXCEPT !.show = show,
                   !.timer = IF show /\ playing THEN Some(HideSteps) ELSE @]

\* A render in which showControls becomes show and isPlaying goes from was to
\* playing.  Setting a state to the value it has renders nothing; the effect's
\* cleanup and body run only when one of its dependencies changed.
Commit(c, show, was, playing) ==
  IF show = c.show /\ playing = was
    THEN c
    ELSE [c EXCEPT !.show = show, !.timer = AutoHideEffect(show, playing)]

(***************************************************************************)
(* The dispatch record.                                                    *)
(***************************************************************************)
\* The sessionIds the model can create: useRef's, the first effect's, the rebinds'.
SessionIds == 0..(MaxRebinds + 1)

\* The dispatch counts after the payloads of log went out.
RECURSIVE CountUp(_, _)
CountUp(d, log) ==
  IF log = <<>> THEN d
  ELSE CountUp([d EXCEPT ![Head(log).payload.session_id] = @ + 1], Tail(log))

\* The sessionIds whose payload is in log: each is the body of one POST to
\* /metrics/playback, made by navigator.sendBeacon or by
\* apiService.recordPlaybackMetric.
Requested(log) == {log[i].payload.session_id : i \in 1..Len(log)}

\* A step that dispatches the payloads of log (none when it is empty).
Dispatch(log) ==
  /\ outbox' = log
  /\ dispatched' = CountUp(dispatched, log)
  /\ requests' = [id \in SessionIds |->
                     IF id \in Requested(log) THEN "pending" ELSE requests[id]]

\* A step that dispatches nothing.
Quiet == Dispatch(<<>>)

(***************************************************************************)
(* Initial state: after the first render and its effects.                  *)
(***************************************************************************)
MountInit ==
  /\ src \in Sources
  \* The content ids are interchangeable: the first one is named v1.
  /\ videoId = "v1"
  /\ mounted = TRUE
  /\ hasBeacon \in BOOLEAN
  /\ hlsSupported \in BOOLEAN
  /\ nativeHls \in BOOLEAN
  /\ clock = 1
  \* useRef builds a session and the source_change effect replaces it at once.
  /\ session =
       LET first == SourceChangeEffect(NewSession(0, 1), <<>>, videoId, hasBeacon, 1).state
       IN IF HlsBind(src, hlsSupported, nativeHls).hls.live
            THEN OnManifestLoading(first, 1) ELSE first
  /\ outbox = <<>>
  /\ dispatched = [id \in SessionIds |-> 0]
  /\ requests = [id \in SessionIds |-> "none"]
  /\ controls = [show |-> TRUE, timer |-> None, idle |-> HideSteps]
  /\ framed = {}
  /\ hls = HlsBind(src, hlsSupported, nativeHls).hls
  /\ instances = Rebind(NoHls, HlsBind(src, hlsSupported, nativeHls).hls, 0)
  /\ levelWrites = 0
  /\ commands = 0
  /\ lastCommand = NullLabel
  /\ vPhase = IF HlsBind(src, hlsSupported, nativeHls).assigns THEN "assigned" ELSE "none"
  /\ vError = FALSE
  /\ vPaused = TRUE
  /\ vTasks = <<>>
  /\ vDuration = NaN
  /\ vBuffered = <<>>
  /\ isPlaying = FALSE
  /\ currentTime = 0
  /\ duration = Num(0)
  /\ quality = Auto
  /\ autoQualityLabel = NullLabel
  /\ isLoading = HlsBind(src, hlsSupported, nativeHls).isLoading
  /\ isBuffering = FALSE
  /\ error = HlsBind(src, hlsSupported, nativeHls).error
  /\ availableQualities = <<>>
  /\ bufferedPercentage = Zero

\* The platforms on which the answer of canPlayType is read: it is consulted
\* only where Hls.isSupported() is false (line 535).
Init == MountInit /\ (hlsSupported => ~nativeHls)

(***************************************************************************)
(* The clock.                                                              *)
(***************************************************************************)
Tick ==
  /\ mounted
  /\ clock < MaxClock
  /\ clock' = clock + 1
  /\ Quiet
  /\ UNCHANGED <<src, videoId, mounted, envVars, controls, instances, session, framed, hls, levelWrites,
                 commands, lastCommand, vPhase, vError, vDuration, vBuffered, vPaused, vTasks, uiVars>>

(***************************************************************************)
(* Commits: a props change, and the unmount.                               *)
(***************************************************************************)
\* "play" or "pause" is among the events the element has queued.
Queued(tasks, e) == \E i \in 1..Len(tasks) : tasks[i] = e

\* The load algorithm sets video.paused unless the element is empty: it never
\* had a resource and no play() is selecting one.  A play() on an element
\* without a resource starts the resource selection, which gives up when the
\* task ends, before the "play" it queued is delivered.
LoadPauses(ph, tasks) == ph # "none" \/ Queued(tasks, "play")

\* The commit with the cleanup of lines 310-316 closed over the new render's
\* sendPlaybackMetrics: the flushed payload takes the new videoId.
PropsChange_NewClosure(s, v) ==
  /\ mounted
  /\ <<s, v>> # <<src, videoId>>
  /\ session.sessionId <= MaxRebinds
  /\ LET cleaned == IF v # videoId
                      THEN UnmountCleanup(session, <<>>, v, hasBeacon)
                      ELSE [state |-> session, log |-> <<>>]
         bound == SourceChangeEffect(cleaned.state, cleaned.log, v, hasBeacon, clock)
         bind == HlsBind(s, hlsSupported, nativeHls)
     IN /\ session' = IF s # src /\ bind.hls.live
                         THEN OnManifestLoading(bound.state, clock) ELSE bound.state
        /\ Dispatch(bound.log)
        /\ src' = s
        /\ videoId' = v
        /\ IF s # src
             THEN /\ bufferedPercentage' = Zero
                  /\ quality' = Auto
                  /\ autoQualityLabel' = NullLabel
                  /\ hls' = bind.hls
                  /\ instances' = Rebind(hls, bind.hls, instances.live)
                  /\ levelWrites' = 0
                  /\ lastCommand' = NullLabel
                  /\ isLoading' = bind.isLoading
                  /\ isBuffering' = FALSE
                  /\ error' = bind.error
                  \* Giving the element a resource runs its load algorithm, which
                  \* sets paused, and fires no "pause" event, unless the element
                  \* is empty: then it keeps the flag a play() gave it.  The load
                  \* clears video.error.
                  /\ vPhase' = IF bind.assigns THEN "assigned" ELSE vPhase
                  /\ vError' = IF bind.assigns THEN FALSE ELSE vError
                  /\ vPaused' = IF bind.assigns /\ LoadPauses(vPhase, vTasks)
                                 THEN TRUE ELSE vPaused
                  \* and removes the element's queued event tasks.
                  /\ vTasks' = IF bind.assigns THEN <<>> ELSE vTasks
                  \* and leaves it without duration or buffered ranges.
                  /\ vDuration' = IF bind.assigns THEN NaN ELSE vDuration
                  /\ vBuffered' = IF bind.assigns THEN <<>> ELSE vBuffered
             ELSE UNCHANGED <<bufferedPercentage, quality, autoQualityLabel, hls,
                              instances, levelWrites, lastCommand, isLoading, isBuffering, error,
                              vPhase, vError, vDuration, vBuffered, vPaused, vTasks>>
  /\ UNCHANGED <<mounted, envVars, controls, clock, framed, commands, isPlaying, currentTime,
                 duration, availableQualities>>

\* The parent renders the player with (s, v).  React runs the cleanups of the
\* effects whose dependencies changed, of the previous render, and then the
\* effects of the new render, each group in the order of the source.
\* sendPlaybackMetrics changes identity exactly when videoId does.
PropsChange(s, v) ==
  /\ mounted
  /\ <<s, v>> # <<src, videoId>>
  /\ session.sessionId <= MaxRebinds
  /\ LET cleaned == IF v # videoId
                      THEN UnmountCleanup(session, <<>>, videoId, hasBeacon)
                      ELSE [state |-> session, log |-> <<>>]
         bound == SourceChangeEffect(cleaned.state, cleaned.log, v, hasBeacon, clock)
         bind == HlsBind(s, hlsSupported, nativeHls)
     IN /\ session' = IF s # src /\ bind.hls.live
                         THEN OnManifestLoading(bound.state, clock) ELSE bound.state
        /\ Dispatch(bound.log)
        /\ src' = s
        /\ videoId' = v
        /\ IF s # src
             THEN /\ bufferedPercentage' = Zero
                  /\ quality' = Auto
                  /\ autoQualityLabel' = NullLabel
                  /\ hls' = bind.hls
                  /\ instances' = Rebind(hls, bind.hls, instances.live)
                  /\ levelWrites' = 0
                  /\ lastCommand' = NullLabel
                  /\ isLoading' = bind.isLoading
                  /\ isBuffering' = FALSE
                  /\ error' = bind.error
                  \* Giving the element a resource runs its load algorithm, which
                  \* sets paused, and fires no "pause" event, unless the element
                  \* is empty: then it keeps the flag a play() gave it.  The load
                  \* clears video.error.
                  /\ vPhase' = IF bind.assigns THEN "assigned" ELSE vPhase
                  /\ vError' = IF bind.assigns THEN FALSE ELSE vError
                  /\ vPaused' = IF bind.assigns /\ LoadPauses(vPhase, vTasks)
                                 THEN TRUE ELSE vPaused
                  \* and removes the element's queued event tasks.
                  /\ vTasks' = IF bind.assigns THEN <<>> ELSE vTasks
                  \* and leaves it without duration or buffered ranges.
                  /\ vDuration' = IF bind.assigns THEN NaN ELSE vDuration
                  /\ vBuffered' = IF bind.assigns THEN <<>> ELSE vBuffered
             ELSE UNCHANGED <<bufferedPercentage, quality, autoQualityLabel, hls,
                              instances, levelWrites, lastCommand, isLoading, isBuffering, error,
                              vPhase, vError, vDuration, vBuffered, vPaused, vTasks>>
  /\ UNCHANGED <<mounted, envVars, controls, clock, framed, commands, isPlaying, currentTime,
                 duration, availableQualities>>

\* The component unmounts: every effect's cleanup runs.
Unmount ==
  /\ mounted
  /\ mounted' = FALSE
  /\ LET cleaned == UnmountCleanup(session, <<>>, videoId, hasBeacon)
     IN session' = cleaned.state /\ Dispatch(cleaned.log)
  /\ hls' = NoHls
  /\ instances' = [live |-> Destroy(hls, instances.live), peak |-> instances.live]
  \* the auto-hide effect's cleanup clears its timeout (line 324)
  /\ controls' = [controls EXCEPT !.timer = None]
  /\ UNCHANGED <<src, videoId, envVars, clock, framed, levelWrites, commands,
                 lastCommand, vPhase, vError, vDuration, vBuffered, vPaused, vTasks, uiVars>>

\* The window's "beforeunload" listener.
HandleBeforeUnload ==
  /\ mounted
  /\ LET r == IF session.metricsSent \/ Falsy(session.firstFrameAt)
                THEN [state |-> session, log |-> <<>>]
                ELSE sendPlaybackMetrics(session, <<>>, "beforeunload", TRUE, videoId,
                                         hasBeacon)
     IN session' = r.state /\ Dispatch(r.log)
  /\ UNCHANGED <<src, videoId, mounted, envVars, controls, instances, clock, framed, hls, levelWrites,
                 commands, lastCommand, vPhase, vError, vDuration, vBuffered, vPaused, vTasks, uiVars>>

(***************************************************************************)
(* The media element's events (the listeners of lines 328-427).  The       *)
(* element fires loadstart, then loadedmetadata, for each resource it is   *)
(* given; "play" and "pause" follow a change of video.paused; "playing"    *)
(* needs data to play and an element that is, or just was, not paused.     *)
(***************************************************************************)
HandleLoadStart ==
  /\ mounted
  /\ vPhase = "assigned"
  /\ vPhase' = "loadstart"
  /\ UNCHANGED <<vError, vDuration, vBuffered>>
  /\ session' = StampManifestRequested(session, clock)
  /\ Quiet
  /\ UNCHANGED <<src, videoId, mounted, envVars, controls, instances, clock, framed, hls, levelWrites,
                 commands, lastCommand, vPaused, vTasks, uiVars>>

\* d is video.duration, b video.buffered, m the resource-timing entry matching
\* video.currentSrc.
HandleLoadedMetadata(d, b, m) ==
  /\ mounted
  /\ vPhase = "loadstart"
  /\ hls.live => hls.manifest \in {"loaded", "parsed"}
  /\ vPhase' = "metadata"
  /\ UNCHANGED vError
  /\ vDuration' = d
  /\ vBuffered' = b
  /\ duration' = d
  /\ isLoading' = FALSE
  /\ bufferedPercentage' = updateBufferedState(b, d)
  /\ session' = captureResourceTiming(m, StampManifestLoaded(session, clock))
  /\ Quiet
  /\ UNCHANGED <<src, videoId, mounted, envVars, controls, instances, clock, framed, hls, levelWrites,
                 commands, lastCommand, vPaused, vTasks, isPlaying, currentTime, quality,
                 autoQualityLabel, isBuffering, error, availableQualities>>

\* t is video.currentTime.  The element fires "timeupdate" as it plays and
\* seeks, and when a load resets a position that was past 0; without metadata
\* it reads duration NaN and no buffered range, and the position that
\* handleSeek or skip last assigned (0 when neither did).
HandleTimeUpdate(t, d, b) ==
  /\ mounted
  /\ vPhase # "metadata" => (d = NaN /\ b = <<>>)
  /\ currentTime' = t
  /\ vDuration' = d
  /\ vBuffered' = b
  /\ bufferedPercentage' = updateBufferedState(b, d)
  /\ Quiet
  /\ UNCHANGED <<src, videoId, mounted, envVars, controls, instances, telemetryVars, hls, levelWrites,
                 commands, lastCommand, vPhase, vError, vPaused, vTasks, isPlaying, duration, quality,
                 autoQualityLabel, isLoading, isBuffering, error, availableQualities>>

\* handleSeek([value]): value is the slider's position, in percent.  newTime is
\* (value / 100) * duration, of the duration the player last stored; assigning
\* a number that is not finite to video.currentTime throws, before
\* setCurrentTime runs.  For a value whose newTime is a whole number.
HandleSeek(value) ==
  /\ mounted
  /\ currentTime' = IF duration.k = "fin" THEN (value * duration.n) \div 100
                    ELSE currentTime
  /\ Quiet
  /\ UNCHANGED <<src, videoId, mounted, envVars, controls, instances, telemetryVars, hls,
                 levelWrites, commands, lastCommand, vPhase, vError, vPaused, vTasks, vDuration,
                 vBuffered, isPlaying, duration, quality, autoQualityLabel, isLoading,
                 isBuffering, error, availableQualities, bufferedPercentage>>

\* The seconds the skip buttons pass (lines 794, 798).
SkipSeconds == {0 - 10, 10}

\* skip(seconds): it assigns video.currentTime the position moved by seconds
\* and clamped to [0, duration], and sets no state of the player.  The
\* element's position is not a variable here: each handler that reads
\* video.currentTime takes it as its input t, so what a skip leaves behind
\* is the t of the "timeupdate" that follows it, with or without metadata.
Skip(seconds) ==
  /\ mounted
  /\ seconds \in SkipSeconds
  /\ Quiet
  /\ UNCHANGED <<src, videoId, mounted, envVars, controls, instances, telemetryVars, hls,
                 levelWrites, commands, lastCommand, vPhase, vError, vPaused, vTasks, vDuration,
                 vBuffered, uiVars>>

HandleProgress(d, b) ==
  /\ mounted
  /\ vPhase \in {"loadstart", "metadata"}
  /\ vDuration' = d
  /\ vBuffered' = b
  /\ bufferedPercentage' = updateBufferedState(b, d)
  /\ Quiet
  /\ UNCHANGED <<src, videoId, mounted, envVars, controls, instances, telemetryVars, hls, levelWrites,
                 commands, lastCommand, vPhase, vError, vPaused, vTasks, isPlaying, currentTime,
                 duration, quality, autoQualityLabel, isLoading, isBuffering, error,
                 availableQualities>>

\* video.play() on an element in phase ph whose paused flag is p and whose
\* queued events are tasks: a paused element clears the flag and queues
\* "play", whatever its readiness, with or without a resource; an element that
\* is not paused queues nothing; one whose resource failed rejects the call
\* and changes nothing.
Play(ph, p, tasks) ==
  IF p /\ ph # "failed" THEN [paused |-> FALSE, tasks |-> Append(tasks, "play")]
                        ELSE [paused |-> p, tasks |-> tasks]

\* video.pause(): an element that is not paused sets the flag and queues
\* "pause"; a paused element queues nothing.
Pause(p, tasks) ==
  IF p THEN [paused |-> p, tasks |-> tasks]
       ELSE [paused |-> TRUE, tasks |-> Append(tasks, "pause")]

\* togglePlay (a click on the video, the overlay or the control button): it
\* reads the isPlaying of the render, not video.paused, and returns before the
\* element's event runs.
TogglePlay ==
  /\ mounted
  /\ LET r == IF isPlaying THEN Pause(vPaused, vTasks) ELSE Play(vPhase, vPaused, vTasks)
     IN vPaused' = r.paused /\ vTasks' = r.tasks
  /\ Quiet
  /\ UNCHANGED <<src, videoId, mounted, envVars, controls, instances, telemetryVars, hls,
                 levelWrites, commands, lastCommand, vPhase, vError, vDuration, vBuffered, uiVars>>

\* The element's queued "play" runs handlePlay, before or after the
\* "loadstart" of a resource the element was given.
HandlePlay ==
  /\ mounted
  /\ vTasks # <<>>
  /\ Head(vTasks) = "play"
  /\ vTasks' = Tail(vTasks)
  /\ isPlaying' = TRUE
  /\ controls' = Commit(controls, controls.show, isPlaying, TRUE)
  /\ isBuffering' = FALSE
  /\ session' = StampPlaybackRequested(session, clock)
  /\ Quiet
  /\ UNCHANGED <<src, videoId, mounted, envVars, instances, clock, framed, hls, levelWrites,
                 commands, lastCommand, vPhase, vError, vPaused, vDuration, vBuffered, currentTime,
                 duration, quality, autoQualityLabel, isLoading, error,
                 availableQualities, bufferedPercentage>>

\* The element's queued "pause" runs handlePause, before or after the
\* "loadstart" of a resource the element was given.
HandlePause ==
  /\ mounted
  /\ vTasks # <<>>
  /\ Head(vTasks) = "pause"
  /\ vTasks' = Tail(vTasks)
  /\ isPlaying' = FALSE
  /\ controls' = Commit(controls, controls.show, isPlaying, FALSE)
  /\ Quiet
  /\ UNCHANGED <<src, videoId, mounted, envVars, instances, telemetryVars, hls, levelWrites,
                 commands, lastCommand, vPhase, vError, vPaused, vDuration, vBuffered, currentTime,
                 duration, quality, autoQualityLabel, isLoading, isBuffering, error,
                 availableQualities, bufferedPercentage>>

\* rs is video.readyState.  An element without a resource fires "waiting"
\* too, after the "play" of a play(); one whose resource failed does not.
HandleWaiting(rs) ==
  /\ mounted
  /\ vPhase # "failed"
  /\ IF ~vPaused /\ rs < 3
       THEN /\ isBuffering' = TRUE
            /\ session' = [session EXCEPT !.bufferingEvents = @ + 1]
       ELSE UNCHANGED <<isBuffering, session>>
  /\ Quiet
  /\ UNCHANGED <<src, videoId, mounted, envVars, controls, instances, clock, framed, hls, levelWrites,
                 commands, lastCommand, vPhase, vError, vDuration, vBuffered, vPaused, vTasks,
                 isPlaying, currentTime, duration, quality, autoQualityLabel, isLoading,
                 error, availableQualities, bufferedPercentage>>

\* handleStalled without its video.paused check.
HandleStalled_CountsPaused ==
  /\ mounted
  /\ vPhase \notin {"none", "failed"}
  /\ isBuffering' = TRUE
  /\ session' = [session EXCEPT !.bufferingEvents = @ + 1]
  /\ Quiet
  /\ UNCHANGED <<src, videoId, mounted, envVars, controls, instances, clock, framed, hls,
                 levelWrites, commands, lastCommand, vPhase, vError, vDuration, vBuffered, vPaused, vTasks,
                 isPlaying, currentTime, duration, quality, autoQualityLabel, isLoading,
                 error, availableQualities, bufferedPercentage>>

HandleStalled ==
  /\ mounted
  /\ vPhase \notin {"none", "failed"}
  /\ IF ~vPaused
       THEN /\ isBuffering' = TRUE
            /\ session' = [session EXCEPT !.bufferingEvents = @ + 1]
       ELSE UNCHANGED <<isBuffering, session>>
  /\ Quiet
  /\ UNCHANGED <<src, videoId, mounted, envVars, controls, instances, clock, framed, hls, levelWrites,
                 commands, lastCommand, vPhase, vError, vDuration, vBuffered, vPaused, vTasks,
                 isPlaying, currentTime, duration, quality, autoQualityLabel, isLoading,
                 error, availableQualities, bufferedPercentage>>

\* handlePlaying does not read video.paused.  The element queues "playing"
\* while it is not paused, and the event can be delivered after a pause() whose
\* "pause" is still queued behind it.
HandlePlaying ==
  /\ mounted
  /\ vPhase = "metadata"
  /\ ~vPaused \/ Queued(vTasks, "pause")
  /\ isBuffering' = FALSE
  /\ session' = StampFirstFrame(session, clock)
  /\ framed' = framed \cup {session.sessionId}
  /\ Quiet
  /\ UNCHANGED <<src, videoId, mounted, envVars, controls, instances, clock, hls, levelWrites, commands,
                 lastCommand, vPhase, vError, vDuration, vBuffered, vPaused, vTasks, isPlaying,
                 currentTime, duration, quality, autoQualityLabel, isLoading, error,
                 availableQualities, bufferedPercentage>>

\* handleCanPlay clearing the error as it clears the buffering flag.
HandleCanPlay_ClearsError(m) ==
  /\ mounted
  /\ vPhase = "metadata"
  /\ isBuffering' = FALSE
  /\ error' = ""
  /\ session' = captureResourceTiming(m, session)
  /\ Quiet
  /\ UNCHANGED <<src, videoId, mounted, envVars, controls, instances, clock, framed, hls, levelWrites,
                 commands, lastCommand, vPhase, vError, vDuration, vBuffered, vPaused, vTasks,
                 isPlaying, currentTime, duration, quality, autoQualityLabel, isLoading,
                 availableQualities, bufferedPercentage>>

HandleCanPlay(m) ==
  /\ mounted
  /\ vPhase = "metadata"
  /\ isBuffering' = FALSE
  /\ session' = captureResourceTiming(m, session)
  /\ Quiet
  /\ UNCHANGED <<src, videoId, mounted, envVars, controls, instances, clock, framed, hls, levelWrites,
                 commands, lastCommand, vPhase, vError, vDuration, vBuffered, vPaused, vTasks,
                 isPlaying, currentTime, duration, quality, autoQualityLabel, isLoading,
                 error, availableQualities, bufferedPercentage>>

\* Playback reaches the end of the resource: the element sets video.paused
\* and fires "pause", then "ended".  The events it had queued before are
\* delivered by then.
PlaybackEnds ==
  /\ mounted
  /\ vPhase = "metadata"
  /\ ~vPaused
  /\ vTasks = <<>>
  /\ vPaused' = TRUE
  /\ vTasks' = <<"pause", "ended">>
  /\ Quiet
  /\ UNCHANGED <<src, videoId, mounted, envVars, controls, instances, telemetryVars, hls,
                 levelWrites, commands, lastCommand, vPhase, vError, vDuration, vBuffered, uiVars>>

\* The element's queued "ended" runs handleEnded.
HandleEnded ==
  /\ mounted
  /\ vTasks # <<>>
  /\ Head(vTasks) = "ended"
  /\ vTasks' = Tail(vTasks)
  /\ isPlaying' = FALSE
  /\ controls' = Commit(controls, controls.show, isPlaying, FALSE)
  /\ LET r == sendPlaybackMetrics(session, <<>>, "ended", FALSE, videoId, hasBeacon)
     IN session' = r.state /\ Dispatch(r.log)
  /\ UNCHANGED <<src, videoId, mounted, envVars, instances, clock, framed, hls, levelWrites,
                 commands, lastCommand, vPhase, vError, vDuration, vBuffered, vPaused,
                 currentTime, duration, quality, autoQualityLabel, isLoading,
                 isBuffering, error, availableQualities, bufferedPercentage>>

\* The element's "error".  A resource that fails before its metadata leaves the
\* element with MEDIA_ERR_SRC_NOT_SUPPORTED; a failure after the metadata (a
\* network or decode error) leaves it playable.  "loadstart" comes first, and
\* the element fails once on a resource: video.error stays set until the next
\* load.  An element that was playing when it failed sets video.paused and
\* fires "pause" as well.
HandleError ==
  /\ mounted
  /\ vPhase \in {"loadstart", "metadata"}
  /\ ~vError
  /\ vPhase' = IF vPhase = "loadstart" THEN "failed" ELSE vPhase
  /\ vError' = TRUE
  /\ vPaused' = TRUE
  /\ vTasks' = IF vPaused THEN vTasks ELSE Append(vTasks, "pause")
  /\ error' = "Playback error"
  /\ LET r == sendPlaybackMetrics(session, <<>>, "error", FALSE, videoId, hasBeacon)
     IN session' = r.state /\ Dispatch(r.log)
  /\ UNCHANGED <<src, videoId, mounted, envVars, controls, instances, clock, framed, hls, levelWrites,
                 commands, lastCommand, vDuration, vBuffered,
                 isPlaying, currentTime, duration, quality, autoQualityLabel, isLoading,
                 isBuffering, availableQualities, bufferedPercentage>>

(***************************************************************************)
(* The pointer over the player's container, and the passing of time.       *)
(***************************************************************************)
\* onMouseEnter and onMouseMove (lines 710, 712): setShowControls(true).
PointerEvent ==
  /\ mounted
  /\ controls' = [Commit(controls, TRUE, isPlaying, isPlaying) EXCEPT !.idle = 0]
  /\ Quiet
  /\ UNCHANGED <<src, videoId, mounted, envVars, instances, telemetryVars, hls,
                 levelWrites, commands, lastCommand, vPhase, vError, vDuration, vBuffered,
                 vPaused, vTasks, uiVars>>

\* onMouseLeave (line 711): !isPlaying || setShowControls(true).
MouseLeave ==
  /\ mounted
  /\ controls' = IF isPlaying THEN Commit(controls, TRUE, isPlaying, isPlaying)
                              ELSE controls
  /\ Quiet
  /\ UNCHANGED <<src, videoId, mounted, envVars, instances, telemetryVars, hls,
                 levelWrites, commands, lastCommand, vPhase, vError, vDuration, vBuffered,
                 vPaused, vTasks, uiVars>>

\* One step of the hide delay passes.  A pending timeout comes one step nearer
\* and, on its last step, runs its callback setShowControls(false) (line 322).
\* The telemetry clock, which counts fractions of a millisecond up to MaxClock,
\* is left alone: no timestamp is read between the steps of a hide delay.
Elapse ==
  /\ mounted
  /\ LET aged == [controls EXCEPT !.idle = IF @ < HideSteps THEN @ + 1 ELSE @]
     IN controls' = IF ~IsSet(aged.timer) THEN aged
                    ELSE IF Val(aged.timer) > 1
                           THEN [aged EXCEPT !.timer = Some(Val(@) - 1)]
                           ELSE Commit(aged, FALSE, isPlaying, isPlaying)
  /\ Quiet
  /\ UNCHANGED <<src, videoId, mounted, envVars, instances, telemetryVars, hls,
                 levelWrites, commands, lastCommand, vPhase, vError, vDuration, vBuffered,
                 vPaused, vTasks, uiVars>>

(***************************************************************************)
(* The response to a metric request.                                       *)
(***************************************************************************)
\* A client that sends the payload again when its request failed.
MetricResponse_Retries(id, ok) ==
  /\ requests[id] = "pending"
  /\ requests' = [requests EXCEPT ![id] = IF ok THEN "ok" ELSE "failed"]
  /\ outbox' = IF ok THEN <<>>
                ELSE <<[channel |-> "recordPlaybackMetric",
                        payload |-> [session_id |-> id, reason |-> "retry"]]>>
  /\ dispatched' = IF ok THEN dispatched ELSE [dispatched EXCEPT ![id] = @ + 1]
  /\ UNCHANGED <<src, videoId, mounted, envVars, controls, instances, telemetryVars,
                 hls, levelWrites, commands, lastCommand, vPhase, vError, vDuration, vBuffered,
                 vPaused, vTasks, uiVars>>

\* The POST of session id's payload settles: ok, or not (a network failure or a
\* non-OK status).  ApiService.request turns both failures into a
\* {success: false} result (part_006 lines 248-273) and sendPlaybackMetrics
\* discards the promise (void, line 274); sendBeacon reports no outcome to the
\* page at all.  No code of the player runs, mounted or not.
MetricResponse(id, ok) ==
  /\ requests[id] = "pending"
  /\ requests' = [requests EXCEPT ![id] = IF ok THEN "ok" ELSE "failed"]
  /\ outbox' = <<>>
  /\ UNCHANGED <<dispatched, src, videoId, mounted, envVars, controls, instances,
                 telemetryVars, hls, levelWrites, commands, lastCommand, vPhase, vError,
                 vDuration, vBuffered, vPaused, vTasks, uiVars>>

(***************************************************************************)
(* The hls.js instance's events (the subscriptions of lines 460-531).      *)
(***************************************************************************)
\* delivery is extractDeliverySource(data.networkDetails), m the resource-timing
\* entry matching src.
ManifestLoaded(delivery, m) ==
  /\ mounted
  /\ hls.live
  /\ hls.manifest = "loading"
  /\ hls' = [hls EXCEPT !.manifest = "loaded"]
  /\ session' = captureResourceTiming(m, OnManifestLoaded(session, clock, delivery))
  /\ Quiet
  /\ UNCHANGED <<src, videoId, mounted, envVars, controls, instances, clock, framed, levelWrites, commands,
                 lastCommand, vPhase, vError, vDuration, vBuffered, vPaused, vTasks, uiVars>>

\* Number((bwEstimate / 1_000_000).toFixed(2)), in hundredths of a megabit per
\* second: bwEstimate is in bits per second.  For an estimate whose quotient is
\* not halfway between two hundredths.
ToMbps(bwEstimate) == (bwEstimate + 5000) \div 10000

\* FRAG_LOADED: bw is data.stats.bwEstimate, delivery is
\* extractDeliverySource(data.networkDetails).  Fragments are requested once the
\* manifest is parsed.
FragLoaded(bw, delivery) ==
  /\ mounted
  /\ hls.live
  /\ hls.manifest = "parsed"
  /\ ~hls.fatal
  /\ session' =
       [session EXCEPT
          !.bandwidthEstimateMbps = IF bw > 0 THEN Some(ToMbps(bw)) ELSE @,
          !.deliverySource = IF @ = Undefined /\ delivery # Undefined THEN delivery ELSE @]
  /\ Quiet
  /\ UNCHANGED <<src, videoId, mounted, envVars, controls, instances, clock, framed, hls,
                 levelWrites, commands, lastCommand, vPhase, vError, vDuration, vBuffered, vPaused, vTasks,
                 uiVars>>

\* The levels the manifest lists, as heights in manifest order (hls.levels).
LevelLists == {<<480, 1080, 720>>, <<720>>}

\* The items the quality menu renders when the list is empty (lines 848-854).
QualityInputs == {Auto, Label(1080), Label(720), Label(480), Label(360)}

\* The labels the quality menu can pass (lines 841-855): the entries of list
\* when it has any, the fixed items when it has none.
MenuItems(list) ==
  IF Len(list) > 0 THEN {list[i] : i \in 1..Len(list)} ELSE QualityInputs

\* qualities.sort((a, b) => b.height - a.height): stable, highest first.
RECURSIVE InsertDesc(_, _)
InsertDesc(q, sorted) ==
  IF sorted = <<>> THEN <<q>>
  ELSE IF Head(sorted).height >= q.height
    THEN <<Head(sorted)>> \o InsertDesc(q, Tail(sorted))
    ELSE <<q>> \o sorted

\* The list left in manifest order: no sort.
SortDesc_ManifestOrder(qs) == qs

RECURSIVE SortDesc(_)
SortDesc(qs) ==
  IF qs = <<>> THEN <<>>
  ELSE InsertDesc(qs[Len(qs)], SortDesc(SubSeq(qs, 1, Len(qs) - 1)))

\* levels.map((level, index) => ({height, index, label})), then the sort.
Qualities(levels) ==
  SortDesc([i \in 1..Len(levels) |->
              [height |-> levels[i], index |-> i - 1, label |-> Label(levels[i])]])

\* levels.findIndex((level) => level.height === targetHeight): 0-based, -1 if none.
RECURSIVE FindIndexFrom(_, _, _)
FindIndexFrom(levels, target, i) ==
  IF i > Len(levels) THEN 0 - 1
  ELSE IF target # None /\ levels[i] = Val(target) THEN i - 1
  ELSE FindIndexFrom(levels, target, i + 1)

FindIndex(levels, target) == FindIndexFrom(levels, target, 1)

\* MANIFEST_PARSED: lv is hls.levels.
ManifestParsed(lv) ==
  /\ mounted
  /\ hls.live
  /\ hls.manifest = "loaded"
  /\ isLoading' = FALSE
  /\ availableQualities' =
       <<Auto>> \o [i \in 1..Len(lv) |-> Qualities(lv)[i].label]
  /\ hls' = [hls EXCEPT !.manifest = "parsed", !.levels = lv, !.currentLevel = 0 - 1,
                        !.nextLevel = 0 - 1, !.loadLevel = 0 - 1,
                        !.autoLevelCapping = 0 - 1]
  /\ levelWrites' = levelWrites + 1
  /\ quality' = Auto
  /\ autoQualityLabel' = IF Len(lv) > 0 THEN Qualities(lv)[1].label ELSE NullLabel
  /\ Quiet
  /\ UNCHANGED <<src, videoId, mounted, envVars, controls, instances, telemetryVars, commands, lastCommand,
                 vPhase, vError, vDuration, vBuffered, vPaused, vTasks, isPlaying, currentTime,
                 duration, isBuffering, error, bufferedPercentage>>

\* LEVEL_SWITCHED to the level of 0-based index i; hls.currentLevel then reads i.
LevelSwitched(i) ==
  /\ mounted
  /\ hls.live
  /\ hls.manifest = "parsed"
  /\ i \in 0..(Len(hls.levels) - 1)
  /\ hls' = [hls EXCEPT !.currentLevel = i]
  /\ autoQualityLabel' = IF quality = Auto THEN Label(hls.levels[i + 1])
                         ELSE autoQualityLabel
  /\ Quiet
  /\ UNCHANGED <<src, videoId, mounted, envVars, controls, instances, telemetryVars, levelWrites, commands,
                 lastCommand, vPhase, vError, vDuration, vBuffered, vPaused, vTasks, isPlaying,
                 currentTime, duration, quality, isLoading, isBuffering, error,
                 availableQualities, bufferedPercentage>>

\* handleQualityChange taking every level for a lower one than the target.
CurrentHeight_Lowest(h) == 1

\* The index handleQualityChange takes for the level now in use.
CurrentManualIndex(h) ==
  IF h.currentLevel >= 0 THEN h.currentLevel
  ELSE IF h.loadLevel >= 0 THEN h.loadLevel
  ELSE IF h.nextLevel >= 0 THEN h.nextLevel
  ELSE 0 - 1

CurrentHeight(h) ==
  IF CurrentManualIndex(h) >= 0 /\ CurrentManualIndex(h) < Len(h.levels)
    THEN h.levels[CurrentManualIndex(h) + 1]
    ELSE 0

\* setQuality("auto") on the instance: the three level writes of lines 635-637.
ResetToAuto(h) ==
  [h EXCEPT !.currentLevel = 0 - 1, !.loadLevel = 0 - 1, !.nextLevel = 0 - 1]

\* handleQualityChange(newQuality); t is video.currentTime.
HandleQualityChange(newQuality, t) ==
  /\ mounted
  /\ commands < MaxCommands
  /\ commands' = commands + 1
  /\ lastCommand' = newQuality
  /\ IF ~hls.live
       THEN UNCHANGED <<quality, hls, levelWrites, autoQualityLabel>>
       ELSE
         /\ quality' = newQuality
         /\ IF newQuality = Auto
              THEN /\ hls' = ResetToAuto(hls)
                   /\ levelWrites' = levelWrites + 1
                   /\ autoQualityLabel' = NullLabel
              ELSE
                LET targetHeight == ParseHeight(newQuality)
                    levelIndex == FindIndex(hls.levels, targetHeight)
                    isUpgrade == CurrentHeight(hls) > 0
                                   /\ Val(targetHeight) > CurrentHeight(hls)
                IN IF levelIndex = 0 - 1
                     THEN UNCHANGED <<hls, levelWrites, autoQualityLabel>>
                     ELSE
                       /\ autoQualityLabel' = NullLabel
                       /\ IF isUpgrade
                            THEN /\ hls' = [hls EXCEPT
                                              !.currentLevel = levelIndex,
                                              !.nextLevel = levelIndex,
                                              !.loadLevel = levelIndex,
                                              !.restores = Append(@,
                                                 [time |-> t, resume |-> ~vPaused])]
                                 /\ levelWrites' = levelWrites + 1
                            ELSE /\ hls' = [hls EXCEPT
                                              !.nextLevel = levelIndex,
                                              !.loadLevel = levelIndex,
                                              !.currentLevel =
                                                 IF vPaused THEN levelIndex ELSE @]
                                 /\ levelWrites' = IF vPaused THEN levelWrites + 1
                                                   ELSE levelWrites
  /\ Quiet
  /\ UNCHANGED <<src, videoId, mounted, envVars, controls, instances, telemetryVars, vPhase, vError, vDuration,
                 vBuffered, vPaused, vTasks, isPlaying, currentTime, duration, isLoading,
                 isBuffering, error, availableQualities, bufferedPercentage>>

\* Every signal resuming playback, whatever was captured.
AnyResume_Always(rs) == TRUE

\* Some subscription in rs resumes playback.
AnyResume(rs) == \E i \in 1..Len(rs) : rs[i].resume

\* BUFFER_APPENDED: every handleBufferAppended registered by an upgrade runs, in
\* the order of registration; each unsubscribes itself, assigns its captured
\* position to video.currentTime and calls video.play() if it captured a playing
\* element.  The "play" that play() queues runs handlePlay later.
BufferAppended ==
  /\ mounted
  /\ hls.live
  /\ hls.manifest = "parsed"
  /\ ~hls.fatal
  /\ hls' = [hls EXCEPT !.restores = <<>>, !.seeks = hls.restores]
  /\ LET r == IF AnyResume(hls.restores) THEN Play(vPhase, vPaused, vTasks)
                ELSE [paused |-> vPaused, tasks |-> vTasks]
     IN vPaused' = r.paused /\ vTasks' = r.tasks
  /\ Quiet
  /\ UNCHANGED <<src, videoId, mounted, envVars, controls, instances, telemetryVars,
                 levelWrites, commands, lastCommand, vPhase, vError, vDuration, vBuffered, uiVars>>

\* The instance emits Hls.Events.ERROR with data.fatal set (a network or media
\* error it cannot recover from).  The effect subscribes to MANIFEST_LOADING,
\* MANIFEST_LOADED, MEDIA_ATTACHED, MANIFEST_PARSED, LEVEL_SWITCHED and FRAG_LOADED
\* (lines 460-531) and to nothing else: no listener of the component runs.
HlsFatalError ==
  /\ mounted
  /\ hls.live
  /\ ~hls.fatal
  /\ hls' = [hls EXCEPT !.fatal = TRUE]
  /\ Quiet
  /\ UNCHANGED <<src, videoId, mounted, envVars, controls, instances, telemetryVars, levelWrites,
                 commands, lastCommand, vPhase, vError, vDuration, vBuffered, vPaused, vTasks, uiVars>>

(***************************************************************************)
(* Inputs of the handlers.                                                 *)
(***************************************************************************)
\* The steps checked in the specifications below: those that leave the session's
\* stall counter within MaxStalls.
Capped == session'.bufferingEvents <= MaxStalls

\* The props changes checked in the larger specifications (the clock, the
\* responses, the runtime): those that stop one session short of MaxRebinds.
Rebound == session'.sessionId <= MaxRebinds

\* video.readyState: HAVE_CURRENT_DATA (below the handler's threshold) and
\* HAVE_ENOUGH_DATA (above it).
ReadyStates == {2, 4}

\* video.duration.
Durations == {NaN, Infinity} \cup {Num(n) : n \in 0..MaxDuration}

\* video.buffered: no range, one range, two ranges; the end-point may lie
\* outside [0, duration].
BufferedRanges ==
  {<<>>}
    \cup {<<[start |-> 0, end |-> e]>> : e \in (0 - 1)..(MaxDuration + 1)}
    \cup {<<[start |-> 0, end |-> 1], [start |-> 2, end |-> e]>> : e \in 2..(MaxDuration + 1)}

\* video.currentTime.
Times == {0, MaxDuration}

\* Positions of the seek bar, in percent.
SliderValues == {0, 50, 100}

\* Resource-timing entries: served from disk, from an edge, from the origin.
ResourceEntries ==
  {NoMatch, Match(0, 0, 100, "h2"), Match(100, 100, 100, "h2"), Match(300, 100, 100, "h3")}

(***************************************************************************)
(* Spec: the telemetry session over the life of the component, on a        *)
(* stopped clock.  The passing of time, the signals that only recompute    *)
(* the buffered bar (timeupdate, progress) and the quality menu have their *)
(* own specifications below.                                               *)
(***************************************************************************)
Next ==
  \/ \E s \in Sources, v \in VideoIds : PropsChange(s, v)
  \/ Unmount
  \/ HandleBeforeUnload
  \/ HandleLoadStart
  \/ HandleLoadedMetadata(Num(MaxDuration), <<>>, NoMatch)
  \/ TogglePlay
  \/ HandlePlay
  \/ HandlePause
  \/ \E rs \in ReadyStates : HandleWaiting(rs) /\ Capped
  \/ HandleStalled /\ Capped
  \/ HandlePlaying
  \/ HandleCanPlay(NoMatch)
  \/ PlaybackEnds
  \/ HandleEnded
  \/ HandleError
  \/ ManifestLoaded(Undefined, NoMatch)

Spec == Init /\ [][Next]_vars

(***************************************************************************)
(* SpecTimed: the telemetry session while the clock advances between the   *)
(* events.  Metrics go out by beacon and manifests play through hls.js:    *)
(* neither the channel nor the platform decides a timestamp.               *)
(***************************************************************************)
TimedNext ==
  \/ Tick
  \/ \E s \in Sources, v \in VideoIds : PropsChange(s, v) /\ Rebound
  \/ Unmount
  \/ HandleBeforeUnload
  \/ HandleLoadStart
  \/ HandleLoadedMetadata(Num(MaxDuration), <<>>, NoMatch)
  \/ TogglePlay
  \/ HandlePlay
  \/ HandlePause
  \/ \E rs \in ReadyStates : HandleWaiting(rs) /\ Capped
  \/ HandleStalled /\ Capped
  \/ HandlePlaying
  \/ PlaybackEnds
  \/ HandleEnded
  \/ HandleError
  \/ ManifestLoaded(Undefined, NoMatch)

TimedInit == Init /\ hasBeacon /\ hlsSupported

SpecTimed == TimedInit /\ [][TimedNext]_vars

(***************************************************************************)
(* SpecOrdered: one session that receives loadstart, loadedmetadata, play  *)
(* (after the one click that asks for it) and playing, in that order and   *)
(* nothing else, while the clock advances.                                 *)
(***************************************************************************)
OrderedNext ==
  \/ Tick
  \/ HandleLoadStart
  \/ HandleLoadedMetadata(Num(MaxDuration), <<>>, NoMatch)
  \/ (vPhase = "metadata" /\ ~isPlaying /\ vPaused /\ TogglePlay)
  \/ HandlePlay
  \/ (isPlaying /\ session.firstFrameAt = None /\ HandlePlaying)

SpecOrdered == Init /\ [][OrderedNext]_vars

(***************************************************************************)
(* SpecBuffered: the signals that recompute the buffered bar, over every   *)
(* duration and buffered range the element can report.                     *)
(***************************************************************************)
BufferedNext ==
  \/ HandleLoadStart
  \/ ManifestLoaded(Undefined, NoMatch)
  \/ \E d \in Durations, b \in BufferedRanges : HandleLoadedMetadata(d, b, NoMatch)
  \/ \E t \in Times, d \in Durations, b \in BufferedRanges : HandleTimeUpdate(t, d, b)
  \/ \E d \in Durations, b \in BufferedRanges : HandleProgress(d, b)
  \/ \E v \in SliderValues : (v * duration.n) % 100 = 0 /\ HandleSeek(v)
  \/ \E sec \in SkipSeconds : Skip(sec)
  \/ \E s \in Sources : PropsChange(s, videoId)

\* The bar does not depend on the delivery of metrics.
BufferedInit == Init /\ hasBeacon

SpecBuffered == BufferedInit /\ [][BufferedNext]_vars

(***************************************************************************)
(* SpecQuality: the quality menu against the hls.js instance.              *)
(***************************************************************************)
\* The 0-based level indexes LEVEL_SWITCHED can name.
LevelIndexes == {0, 1, 2}

QualityNext ==
  \/ HandleLoadStart
  \/ ManifestLoaded(Undefined, NoMatch)
  \/ \E lv \in LevelLists : ManifestParsed(lv)
  \/ \E i \in LevelIndexes : LevelSwitched(i)
  \/ \E q \in MenuItems(availableQualities), t \in Times : HandleQualityChange(q, t)
  \/ BufferAppended
  \/ TogglePlay
  \/ HandlePlay
  \/ HandlePause

SpecQuality == Init /\ [][QualityNext]_vars

(***************************************************************************)
(* SpecLifecycle: sources bound and rebound, the runtime's signals and its *)
(* fatal error, the element's events and the quality menu, up to the       *)
(* unmount.  The clock stands still, metrics go out by beacon and the     *)
(* viewer gives one quality command: none of these decides what is bound   *)
(* or which error the player shows.                                        *)
(***************************************************************************)
\* The sources of this specification: a second manifest, so that one hls.js
\* source follows another.
LifecycleSources == Sources \cup {"c.m3u8"}

LifecycleNext ==
  \/ \E s \in LifecycleSources : PropsChange(s, videoId) /\ Rebound
  \/ Unmount
  \/ HandleLoadStart
  \/ ManifestLoaded(Undefined, NoMatch)
  \/ ManifestParsed(<<480, 1080, 720>>)
  \/ \E i \in LevelIndexes : LevelSwitched(i)
  \/ \E q \in MenuItems(availableQualities) \cap {Auto, Label(1080)} :
       commands = 0 /\ HandleQualityChange(q, 0)
  \/ BufferAppended
  \/ HlsFatalError
  \/ HandleLoadedMetadata(Num(MaxDuration), <<>>, NoMatch)
  \/ TogglePlay
  \/ HandlePlay
  \/ HandlePause
  \/ \E rs \in ReadyStates : HandleWaiting(rs) /\ Capped
  \/ HandleStalled /\ Capped
  \/ HandlePlaying
  \/ HandleCanPlay(NoMatch)
  \/ PlaybackEnds
  \/ HandleEnded
  \/ HandleError

LifecycleInit == Init /\ hasBeacon

\* Every platform, those that offer both Media Source Extensions and native
\* playback of the manifest format included.
PlatformInit == MountInit /\ hasBeacon

(***************************************************************************)
(* SpecControls: the pointer, the auto-hide timeout and play/pause.        *)
(***************************************************************************)
ControlsNext ==
  \/ HandleLoadStart
  \/ HandleLoadedMetadata(Num(MaxDuration), <<>>, NoMatch)
  \/ TogglePlay
  \/ HandlePlay
  \/ HandlePause
  \/ PointerEvent
  \/ MouseLeave
  \/ Elapse
  \/ PlaybackEnds
  \/ HandleEnded
  \/ Unmount

SpecControls == Init /\ [][ControlsNext]_vars

(***************************************************************************)
(* SpecDelivery: what the response headers and the resource-timing entries *)
(* say about where the manifest and the fragments came from.               *)
(***************************************************************************)
\* extractDeliverySource's results: nothing, or a class read from the headers.
Deliveries == {Undefined, "edge_cache", "origin"}

\* data.stats.bwEstimate: none, and two estimates in bits per second.
BandwidthEstimates == {0, 2504000, 2506000}

DeliveryNext ==
  \/ \E s \in Sources, v \in VideoIds : PropsChange(s, v)
  \/ HandleLoadStart
  \/ \E m \in ResourceEntries : HandleLoadedMetadata(Num(MaxDuration), <<>>, m)
  \/ \E m \in ResourceEntries : HandleCanPlay(m)
  \/ \E d \in Deliveries, m \in ResourceEntries : ManifestLoaded(d, m)
  \/ ManifestParsed(<<720>>)
  \/ \E bw \in BandwidthEstimates, d \in Deliveries : FragLoaded(bw, d)

DeliveryInit == Init /\ hasBeacon

SpecDelivery == DeliveryInit /\ [][DeliveryNext]_vars

(***************************************************************************)
(* SpecHeaders: the cache headers of the manifest's and the fragments'     *)
(* responses, in every combination.                                        *)
(***************************************************************************)
\* The values of a cache-status header: absent, and one per word the
\* classification knows, and one it does not know.
CacheValues ==
  {<<>>, <<"HIT">>, <<"stale">>, <<"MISS">>, <<"bypass">>, <<"DYNAMIC">>, <<"EXPIRED">>}

\* The values of the age header: absent, zero, positive.
AgeValues == {<<>>, <<"0">>, <<"5">>}

HeaderSets ==
  [cf_cache_status : CacheValues, x_cache : CacheValues, x_cache_status : CacheValues,
   x_served_by : CacheValues, age : AgeValues]

HeadersNext ==
  \/ \E s \in Sources, v \in VideoIds : PropsChange(s, v)
  \/ HandleLoadStart
  \/ HandleLoadedMetadata(Num(MaxDuration), <<>>, NoMatch)
  \/ \E h \in HeaderSets : ManifestLoaded(extractDeliverySource(h), NoMatch)
  \/ ManifestParsed(<<720>>)
  \/ \E h \in HeaderSets : FragLoaded(0, extractDeliverySource(h))

SpecHeaders == DeliveryInit /\ [][HeadersNext]_vars

(***************************************************************************)
(* SpecSizes: the sizes of the resource-timing entry captured for a        *)
(* source, in every combination.                                           *)
(***************************************************************************)
\* Byte counts: none, half of, equal to, 4% above and 5% above a body of 100.
Sizes == {0, 50, 100, 104, 105}

SizeEntries == {Match(t, e, d, "h2") : t \in Sizes, e \in Sizes, d \in Sizes}

SizesNext ==
  \/ \E s \in Sources : PropsChange(s, videoId)
  \/ HandleLoadStart
  \/ \E m \in SizeEntries : HandleLoadedMetadata(Num(MaxDuration), <<>>, m)
  \/ \E m \in SizeEntries : HandleCanPlay(m)

SizesInit == Init /\ hasBeacon /\ ~hlsSupported /\ nativeHls

SpecSizes == SizesInit /\ [][SizesNext]_vars

(***************************************************************************)
(* SpecStalls: sessions that stall again and again, on a stopped clock.    *)
(***************************************************************************)
StallsNext ==
  \/ \E s \in Sources : PropsChange(s, videoId)
  \/ HandleLoadStart
  \/ HandleLoadedMetadata(Num(MaxDuration), <<>>, NoMatch)
  \/ TogglePlay
  \/ HandlePlay
  \/ HandlePause
  \/ \E rs \in ReadyStates :
       HandleWaiting(rs) /\ session'.bufferingEvents <= MaxRepeatedStalls
  \/ HandleStalled /\ session'.bufferingEvents <= MaxRepeatedStalls
  \/ HandlePlaying
  \/ HandleCanPlay(NoMatch)
  \/ ManifestLoaded(Undefined, NoMatch)

SpecStalls == Init /\ [][StallsNext]_vars

(***************************************************************************)
(* SpecMetrics: the sessions of a player on a stopped clock, and the        *)
(* responses to their metric requests.                                      *)
(***************************************************************************)
MetricsNext ==
  \/ \E s \in Sources, v \in VideoIds : PropsChange(s, v) /\ Rebound
  \/ Unmount
  \/ HandleBeforeUnload
  \/ HandleLoadStart
  \/ HandleLoadedMetadata(Num(MaxDuration), <<>>, NoMatch)
  \/ TogglePlay
  \/ HandlePlay
  \/ HandlePause
  \/ \E rs \in ReadyStates : HandleWaiting(rs) /\ Capped
  \/ HandlePlaying
  \/ PlaybackEnds
  \/ HandleEnded
  \/ HandleError
  \/ \E id \in SessionIds, ok \in BOOLEAN : MetricResponse(id, ok)

SpecMetrics == Init /\ [][MetricsNext]_vars

SpecPlatform == PlatformInit /\ [][LifecycleNext]_vars
SpecLifecycle == LifecycleInit /\ [][LifecycleNext]_vars

(***************************************************************************)
(* Properties.                                                             *)
(***************************************************************************)
\* The latest step dispatched a payload.
Dispatched == Len(outbox) > 0

\* The session has rendered a frame and has not reported yet.
Eligible(state) == ~Falsy(state.firstFrameAt) /\ ~state.metricsSent

\* a <= b when both are set.
Ordered(a, b) == (IsSet(a) /\ IsSet(b)) => Val(a) <= Val(b)

\* C1: over every sequence of dispatch triggers, no session has more than one
\* payload dispatched; metricsSent is true exactly when the session's payload
\* has gone out, and once true it stays true for as long as the session lives.
C1_AtMostOnePayload ==
  [][/\ \A id \in SessionIds : dispatched'[id] <= 1
     /\ session'.metricsSent <=> dispatched'[session'.sessionId] = 1
     /\ (session'.sessionId = session.sessionId /\ session.metricsSent)
          => (session'.metricsSent /\ outbox' = <<>>)]_vars

\* A reported session on which an "error" trigger has also run, the step after.
C1_Witness ==
  /\ session.metricsSent
  /\ dispatched[session.sessionId] = 1
  /\ error = "Playback error"
  /\ outbox = <<>>

\* C2: a session that never handled "playing" has no payload, whatever trigger
\* ran, and its metricsSent is false.
C2_NoFrameNoPayload ==
  /\ \A id \in SessionIds : id \notin framed => dispatched[id] = 0
  /\ \A i \in 1..Len(outbox) : outbox[i].payload.session_id \in framed
  /\ session.sessionId \notin framed => ~session.metricsSent

\* Unmounted after a rebind and an "error", with no session ever framed:
\* source_change, error and unmount have all run.
C2_Witness ==
  /\ ~mounted
  /\ framed = {}
  /\ session.sessionId >= 2
  /\ error = "Playback error"
  /\ \A id \in SessionIds : dispatched[id] = 0

\* A terminal trigger: ended, error, a further props change, beforeunload, unmount.
TerminalTrigger ==
  \/ HandleEnded
  \/ HandleError
  \/ HandleBeforeUnload
  \/ Unmount
  \/ \E s \in Sources, v \in VideoIds : PropsChange(s, v)

\* C3: when the session before this one never reached first frame and this one
\* has, a terminal trigger leaves exactly one payload for this session and none
\* for the one before: no step that leaves anything else is a terminal trigger.
C3_ScenarioE ==
  [][(/\ session.sessionId >= 2
      /\ (session.sessionId - 1) \notin framed
      /\ ~Falsy(session.firstFrameAt)
      /\ ~(/\ dispatched'[session.sessionId] = 1
            /\ dispatched'[session.sessionId - 1] = 0))
       => ~TerminalTrigger]_vars

\* A further source change has just replaced source B's session: the step
\* dispatched that session's one payload, with reason source_change, and source
\* A's session, which never framed, has none.
C3_Witness ==
  /\ session.sessionId = 3
  /\ 1 \notin framed
  /\ 2 \in framed
  /\ dispatched[2] = 1
  /\ dispatched[1] = 0
  /\ \E i \in 1..Len(outbox) : /\ outbox[i].payload.session_id = 2
                               /\ outbox[i].payload.reason = "source_change"

\* C4: a step that replaces an eligible session dispatches, in that step, one
\* payload carrying the old session's id, its latencies and its buffering count.
C4_FlushBeforeReplace ==
  [][(session'.sessionId # session.sessionId /\ Eligible(session))
       => (/\ Len(outbox') = 1
           /\ dispatched'[session.sessionId] = 1
           /\ LET p == outbox'[1].payload IN
                /\ p.session_id = session.sessionId
                /\ p.first_frame_ms =
                     Some(Round(Val(session.firstFrameAt) - Val(session.mountTime)))
                /\ p.total_startup_ms =
                     IF IsSet(session.playbackRequestedAt)
                       THEN Some(Round(Val(session.firstFrameAt)
                                         - Val(session.playbackRequestedAt)))
                       ELSE p.first_frame_ms
                /\ p.buffering_events = session.bufferingEvents)]_vars

\* The step after a rebind that flushed a session with a stall and a first frame
\* later than its mount.
C4_Witness ==
  /\ session.sessionId = 2
  /\ Len(outbox) = 1
  /\ outbox[1].payload.session_id = 1
  /\ outbox[1].payload.buffering_events = 1
  /\ outbox[1].payload.first_frame_ms = Some(1)

\* C5: when src and videoId change together, the payload that reports the
\* superseded session carries "source_change"; "unmount" is carried only by a
\* payload dispatched as the component is torn down.
C5_ReasonNamesTrigger ==
  [][(Len(outbox') = 1 /\ src' # src /\ videoId' # videoId)
       => (/\ outbox'[1].payload.reason = "source_change"
           /\ outbox'[1].payload.reason = "unmount" => ~mounted')]_vars

\* C6: a payload with reason "beforeunload" goes out through sendBeacon, in
\* every environment.
C6_BeforeUnloadUsesBeacon ==
  \A i \in 1..Len(outbox) :
    outbox[i].payload.reason = "beforeunload" => outbox[i].channel = "sendBeacon"

\* C7: the timestamps of the session that are set are in the order
\* manifestRequestedAt <= manifestLoadedAt <= playbackRequestedAt <= firstFrameAt.
C7_TimestampChain ==
  /\ Ordered(session.manifestRequestedAt, session.manifestLoadedAt)
  /\ Ordered(session.manifestRequestedAt, session.playbackRequestedAt)
  /\ Ordered(session.manifestRequestedAt, session.firstFrameAt)
  /\ Ordered(session.manifestLoadedAt, session.playbackRequestedAt)
  /\ Ordered(session.manifestLoadedAt, session.firstFrameAt)
  /\ Ordered(session.playbackRequestedAt, session.firstFrameAt)

\* C8: after loadstart, loadedmetadata, play, playing in that order, the four
\* timestamps are set and in that order.
C8_OrderedSignals ==
  IsSet(session.firstFrameAt)
    => /\ IsSet(session.manifestRequestedAt)
       /\ IsSet(session.manifestLoadedAt)
       /\ IsSet(session.playbackRequestedAt)
       /\ Val(session.manifestRequestedAt) <= Val(session.manifestLoadedAt)
       /\ Val(session.manifestLoadedAt) <= Val(session.playbackRequestedAt)
       /\ Val(session.playbackRequestedAt) <= Val(session.firstFrameAt)

\* The script has run to its end with the clock advancing inside it.
C8_Witness ==
  /\ session.manifestRequestedAt = Some(1)
  /\ session.firstFrameAt = Some(MaxClock)
  /\ IsSet(session.manifestLoadedAt)
  /\ IsSet(session.playbackRequestedAt)

\* C9: the buffered percentage is within [0, 100], and it is 0 when the element
\* has no buffered range or its duration is not finite or not positive.
C9_BufferedInRange ==
  /\ bufferedPercentage.den > 0
  /\ 0 <= bufferedPercentage.num
  /\ bufferedPercentage.num <= 100 * bufferedPercentage.den
  /\ (Len(vBuffered) = 0 \/ ~isFinite(vDuration) \/ vDuration.n <= 0)
       => bufferedPercentage = Zero

\* A signal read a buffered end-point beyond the duration: the bar is full.
C9_Witness ==
  /\ Len(vBuffered) > 0
  /\ isFinite(vDuration)
  /\ vDuration.n > 0
  /\ vBuffered[Len(vBuffered)].end > vDuration.n
  /\ bufferedPercentage = Percent(100 * vDuration.n, vDuration.n)

\* C10: a setQuality("auto") that follows a setQuality("auto"), with the
\* instance's levels still unconstrained, leaves the mode at auto and writes no
\* level of the instance again.
C10_AutoTwiceNoReset ==
  [][(/\ hls.live
      /\ lastCommand = Auto
      /\ quality = Auto
      /\ hls = ResetToAuto(hls)
      /\ commands' = commands + 1
      /\ lastCommand' = Auto)
       => (quality' = Auto /\ levelWrites' = levelWrites)]_vars

\* The heights the level lists name.
Heights == UNION {{lv[i] : i \in 1..Len(lv)} : lv \in LevelLists}

\* C11: the step that handles manifest-parsed leaves the quality list as "auto"
\* followed by one "<height>p" label per level of the runtime, heights
\* descending; the mode auto; and the runtime's current, next and load level
\* and its level cap at -1.
C11_ManifestParsedInventory ==
  [][(hls.manifest = "loaded" /\ hls'.manifest = "parsed")
       => LET lv == hls'.levels
              q == availableQualities'
          IN /\ Len(q) = Len(lv) + 1
             /\ q[1] = Auto
             /\ \A i \in 2..Len(q) : q[i].kind = "p"
             /\ \A i \in 2..(Len(q) - 1) : q[i].h >= q[i + 1].h
             /\ \A h \in Heights :
                  Cardinality({i \in 2..Len(q) : q[i].h = h})
                    = Cardinality({i \in 1..Len(lv) : lv[i] = h})
             /\ quality' = Auto
             /\ hls'.currentLevel = 0 - 1
             /\ hls'.nextLevel = 0 - 1
             /\ hls'.loadLevel = 0 - 1
             /\ hls'.autoLevelCapping = 0 - 1]_vars

\* A manifest whose levels are out of order has been parsed.
C11_Witness ==
  /\ hls.manifest = "parsed"
  /\ hls.levels = <<480, 1080, 720>>
  /\ availableQualities = <<Auto, Label(1080), Label(720), Label(480)>>
  /\ quality = Auto
  /\ commands = 0
  /\ hls.currentLevel = 0 - 1

\* C12: while the mode is auto, the displayed resolution label is absent or is
\* the label of the level the runtime last switched to.
C12_AutoLabelIsRuntimeChoice ==
  (quality = Auto /\ autoQualityLabel # NullLabel)
    => /\ hls.live
       /\ hls.currentLevel >= 0
       /\ hls.currentLevel < Len(hls.levels)
       /\ autoQualityLabel = Label(hls.levels[hls.currentLevel + 1])

\* The step is a quality command for the label "<h>p" on a live instance.
CommandFor(h) ==
  /\ hls.live
  /\ commands' = commands + 1
  /\ lastCommand' = Label(h)

\* The 0-based indexes of the runtime's levels of height h.
IndexesOf(h) == {i \in 0..(Len(hls.levels) - 1) : hls.levels[i + 1] = h}

\* The runtime is on a level, of this height.
PlayingHeight == hls.levels[hls.currentLevel + 1]

\* C13: with the element paused on the 480p level the runtime selected, a
\* command for "1080p" sets the current level to the 1080p index at once and
\* registers no position restore.
C13_PausedUpgradeNoRestore ==
  [][(/\ CommandFor(1080)
      /\ vPaused
      /\ quality = Auto
      /\ hls.currentLevel >= 0
      /\ PlayingHeight = 480
      /\ IndexesOf(1080) # {})
       => (/\ hls'.currentLevel \in IndexesOf(1080)
           /\ hls'.restores = hls.restores)]_vars

\* C14: a command for a level no higher than the one playing sets the next and
\* the load level to the target index, sets the current level to it only if the
\* element is paused, and registers no position restore.
C14_DowngradeSchedules ==
  [][\A h \in Heights :
       (/\ CommandFor(h)
        /\ hls.currentLevel >= 0
        /\ h <= PlayingHeight
        /\ IndexesOf(h) # {})
         => (/\ hls'.nextLevel \in IndexesOf(h)
             /\ hls'.loadLevel = hls'.nextLevel
             /\ hls'.currentLevel = IF vPaused THEN hls'.nextLevel ELSE hls.currentLevel
             /\ hls'.restores = hls.restores)]_vars

\* Playing on 1080p with 480p scheduled for the next fragment and nothing to
\* restore.
C14_Witness ==
  /\ hls.live
  /\ ~vPaused
  /\ lastCommand = Label(480)
  /\ hls.currentLevel >= 0
  /\ PlayingHeight = 1080
  /\ hls.nextLevel \in IndexesOf(480)
  /\ hls.loadLevel = hls.nextLevel
  /\ hls.restores = <<>>

\* C15: a command for a level higher than the one playing sets current, next
\* and load level to the target index and registers one restore holding a
\* position and whether the element was playing; a buffer-appended signal runs
\* every registered restore once, in order, with its captured position,
\* unregisters it, and leaves the element playing exactly if it was playing
\* already or some restore captured a playing element.
C15_UpgradeRestoresOnce ==
  [][/\ \A h \in Heights :
          (/\ CommandFor(h)
           /\ hls.currentLevel >= 0
           /\ h > PlayingHeight
           /\ IndexesOf(h) # {})
            => (/\ hls'.currentLevel \in IndexesOf(h)
                /\ hls'.nextLevel = hls'.currentLevel
                /\ hls'.loadLevel = hls'.currentLevel
                /\ Len(hls'.restores) = Len(hls.restores) + 1
                /\ SubSeq(hls'.restores, 1, Len(hls.restores)) = hls.restores
                /\ hls'.restores[Len(hls'.restores)].resume = ~vPaused
                /\ hls'.restores[Len(hls'.restores)].time \in Times)
     /\ (/\ hls.live /\ hls'.live /\ src' = src
         /\ (hls'.seeks # hls.seeks \/ Len(hls'.restores) < Len(hls.restores)))
          => (/\ hls'.seeks = hls.restores
              /\ hls'.restores = <<>>
              /\ vPaused' = (vPaused /\ \A i \in 1..Len(hls.restores) :
                                           ~hls.restores[i].resume))]_vars

\* A restore captured at position MaxDuration while playing has run and is
\* unregistered; the element plays on the level of the command.
C15_Witness ==
  /\ hls.live
  /\ hls.seeks = <<[time |-> MaxDuration, resume |-> TRUE]>>
  /\ hls.restores = <<>>
  /\ ~vPaused
  /\ hls.currentLevel = hls.nextLevel
  /\ hls.currentLevel >= 0

\* C16: a command for a height that no level of the runtime has changes nothing:
\* not the selected label, not the displayed label, not the runtime's levels,
\* not the error.
C16_UnknownHeightNoOp ==
  [][\A h \in {360, 480, 720, 1080} :
       (CommandFor(h) /\ IndexesOf(h) = {})
         => (/\ quality' = quality
             /\ autoQualityLabel' = autoQualityLabel
             /\ hls' = hls
             /\ error' = error)]_vars

\* C17: never more than one live runtime instance, within a step either; the
\* one there is, is the one the player holds; none is left after the unmount.
C17_OneLiveInstance ==
  /\ instances.peak <= 1
  /\ instances.live = IF hls.live THEN 1 ELSE 0
  /\ ~mounted => instances.live = 0

\* A second hls.js source is bound straight after a first one whose instance
\* had parsed its manifest (the quality list is still the first one's): the
\* first instance is gone, the second is live.
C17_Witness ==
  /\ src = "c.m3u8"
  /\ session.sessionId = 2
  /\ hls.live
  /\ hls.manifest = "loading"
  /\ availableQualities # <<>>
  /\ instances = [live |-> 1, peak |-> 1]

\* C18: the step in which the runtime reports a fatal error leaves the player
\* with an error message and, for a session that has rendered a frame and not
\* reported, dispatches its payload with reason "error".
C18_FatalRuntimeError ==
  [][(hls.live /\ ~hls.fatal /\ hls'.live /\ hls'.fatal)
       => (/\ error' # ""
           /\ Eligible(session)
                => \E i \in 1..Len(outbox') : outbox'[i].payload.reason = "error")]_vars

\* C19: an error message that is set stays set in every step that does not bind
\* a new source.
C19_ErrorIsSticky ==
  [][(error # "" /\ src' = src) => error' # ""]_vars

\* The error was set before the session's first frame, and is still shown in
\* the step where "ended" reports the session.
C19_Witness ==
  /\ error = "Playback error"
  /\ Len(outbox) = 1
  /\ outbox[1].payload.reason = "ended"

\* C20: a "waiting" or a "stalled" event that arrives while readyState is 3 or
\* more neither turns isBuffering on nor counts a buffering event.  handleStalled
\* reads no readyState: a "stalled" step is one at any readiness.
C20_AdequateReadinessNoStall ==
  [][(\E rs \in ReadyStates : rs >= 3 /\ (HandleWaiting(rs) \/ HandleStalled))
       => (/\ isBuffering' => isBuffering
           /\ session'.bufferingEvents = session.bufferingEvents)]_vars

\* C21: a manifest source is given to the media element directly, with no
\* hls.js instance, wherever the platform plays the manifest format natively,
\* and goes through hls.js elsewhere; any other source is given to the element
\* directly with no hls.js instance.
C21_NativeBypassesRuntime ==
  mounted =>
    IF IsManifest(src)
      THEN IF nativeHls THEN ~hls.live /\ vPhase # "none"
           ELSE hlsSupported => hls.live
      ELSE ~hls.live /\ vPhase # "none"

\* C22: while the bound source is a manifest and neither hls.js nor the platform
\* plays the format, the player shows an error, is not loading and has no hls.js
\* instance; this lasts until another source is bound.
C22_UnsupportedIsError ==
  (IsManifest(src) /\ ~hlsSupported /\ ~nativeHls)
    => (error # "" /\ ~isLoading /\ ~hls.live /\ instances.live = 0)

\* A plain file was playing when the manifest source was bound: the element
\* keeps the file, and the message of line 540 is shown.
C22_Witness ==
  /\ IsManifest(src) /\ ~hlsSupported /\ ~nativeHls
  /\ session.sessionId > 1
  /\ isPlaying
  /\ vPhase = "metadata"
  /\ error = "HLS not supported in this browser"

\* C23: the step in which the POST of a payload fails (a network failure or a
\* non-OK status) changes none of error, isLoading, isBuffering, isPlaying, sends
\* nothing again, and leaves the session that made the request marked as sent.
C23_FailedSubmissionIsInert ==
  [][\A id \in SessionIds :
       MetricResponse(id, FALSE)
         => (/\ UNCHANGED <<error, isLoading, isBuffering, isPlaying>>
             /\ outbox' = <<>>
             /\ dispatched' = dispatched
             /\ session'.sessionId = id => session'.metricsSent)]_vars

\* Where every payload goes through apiService.recordPlaybackMetric: the request
\* of the current session has failed; the player is still mounted and playing,
\* with the session marked as sent and one payload dispatched.
C23_Witness ==
  /\ mounted
  /\ ~hasBeacon
  /\ requests[session.sessionId] = "failed"
  /\ session.metricsSent
  /\ dispatched[session.sessionId] = 1
  /\ isPlaying
  /\ error = ""

\* C24: in a step that keeps the session, each of manifestRequestedAt,
\* manifestLoadedAt, playbackRequestedAt and firstFrameAt that is set keeps its
\* value, whichever event of the element or of hls.js the step handles.
C24_TimestampsWrittenOnce ==
  [][session'.sessionId = session.sessionId
       => (/\ IsSet(session.manifestRequestedAt)
                => session'.manifestRequestedAt = session.manifestRequestedAt
           /\ IsSet(session.manifestLoadedAt)
                => session'.manifestLoadedAt = session.manifestLoadedAt
           /\ IsSet(session.playbackRequestedAt)
                => session'.playbackRequestedAt = session.playbackRequestedAt
           /\ IsSet(session.firstFrameAt)
                => session'.firstFrameAt = session.firstFrameAt)]_vars

\* A session under hls.js whose manifest was requested and loaded at the first
\* instant and whose "playing" came at a later one, after a stall: the earlier
\* timestamps still hold the first instant.
C24_Witness ==
  /\ hls.live
  /\ session.manifestRequestedAt = Some(1)
  /\ session.manifestLoadedAt = Some(1)
  /\ session.playbackRequestedAt = Some(1)
  /\ session.firstFrameAt = Some(MaxClock)
  /\ session.bufferingEvents = 1

\* A stall signal whose handler asks for the Buffering indication: "stalled", or
\* "waiting" below HAVE_FUTURE_DATA.
StallSignal == HandleStalled \/ \E rs \in ReadyStates : rs < 3 /\ HandleWaiting(rs)

\* C28: a new session starts with bufferingEvents 0; in a step that keeps the
\* session the counter stays or grows by one, and it grows exactly when the step
\* is a stall signal on an element that is not paused, which then shows
\* Buffering; a stall signal on a paused element leaves it alone.
C28_BufferingEventsCount ==
  [][/\ session'.sessionId # session.sessionId => session'.bufferingEvents = 0
     /\ session'.sessionId = session.sessionId =>
          /\ session'.bufferingEvents \in
                {session.bufferingEvents, session.bufferingEvents + 1}
          /\ session'.bufferingEvents = session.bufferingEvents + 1
                <=> (~vPaused /\ StallSignal)
          /\ session'.bufferingEvents = session.bufferingEvents + 1 => isBuffering'
          /\ vPaused => session'.bufferingEvents = session.bufferingEvents]_vars

\* Two stalls of a session that never received "playing": the second signal
\* arrived with Buffering already shown.
C28_Witness ==
  /\ session.bufferingEvents = MaxRepeatedStalls
  /\ session.sessionId \notin framed
  /\ isBuffering
  /\ ~vPaused

\* C25: in a step that keeps the session, a deliverySource that is set keeps its
\* value, whether the step classifies the headers of the manifest or of a
\* fragment or captures a resource-timing entry.
C25_DeliverySourceSetOnce ==
  [][(session'.sessionId = session.sessionId /\ session.deliverySource # Undefined)
       => session'.deliverySource = session.deliverySource]_vars

\* The manifest's headers said origin; the entry captured later counts no
\* transferred bytes, which classifyDeliverySource calls disk_cache, and a
\* fragment has loaded since.
C25_Witness ==
  /\ session.deliverySource = "origin"
  /\ session.transferSize = Some(0)
  /\ IsSet(session.bandwidthEstimateMbps)
  /\ vPhase = "metadata"

\* C26: the step that binds another source leaves every transient UI state at
\* its default: buffered percentage 0, quality "auto" with no displayed label,
\* isBuffering false, error empty (but for the message of a source no runtime
\* can play), isPlaying false, currentTime 0 and duration 0.
C26_SourceChangeResetsUi ==
  [][src' # src
       => (/\ bufferedPercentage' = Zero
           /\ quality' = Auto
           /\ autoQualityLabel' = NullLabel
           /\ ~isBuffering'
           /\ error' = "" \/ (IsManifest(src') /\ ~hlsSupported /\ ~nativeHls)
           /\ ~isPlaying'
           /\ currentTime' = 0
           /\ duration' = Num(0))]_vars

\* C27: from the bind of a source until the element's "loadedmetadata" for it,
\* the player shows Loading unless it shows an error; whether the source plays
\* through hls.js, natively or as a plain file.
C27_LoadingUntilMetadata ==
  (mounted /\ vPhase \in {"assigned", "loadstart"} /\ error = "") => isLoading

\* The difference of two timestamps, in ticks.
Between(later, earlier) == Val(later) - Val(earlier)

\* ms is the whole number of milliseconds nearest to d ticks, the upper one when
\* d lies halfway between two.
Nearest(ms, d) ==
  /\ ms # None
  /\ 2 * Val(ms) * TicksPerMs - TicksPerMs <= 2 * d
  /\ 2 * d < 2 * Val(ms) * TicksPerMs + TicksPerMs

\* ms is exactly d ticks.
Exactly(ms, d) == ms # None /\ Val(ms) * TicksPerMs = d

\* C29 as stated: every payload a step dispatches carries the exact differences
\* of the timestamps of the session it reports: first_frame_ms is firstFrameAt -
\* mountTime; total_startup_ms is firstFrameAt - playbackRequestedAt where a play
\* request was recorded and first_frame_ms elsewhere; manifest_latency_ms is
\* manifestLoadedAt - manifestRequestedAt where both are set and absent
\* elsewhere; buffering_events is the session's counter.
C29_PayloadExactLatencies ==
  [][\A i \in 1..Len(outbox') :
       LET p == outbox'[i].payload IN
       /\ p.session_id = session.sessionId
       /\ Exactly(p.first_frame_ms, Between(session.firstFrameAt, session.mountTime))
       /\ IF IsSet(session.playbackRequestedAt)
            THEN Exactly(p.total_startup_ms,
                         Between(session.firstFrameAt, session.playbackRequestedAt))
            ELSE p.total_startup_ms = p.first_frame_ms
       /\ IF IsSet(session.manifestLoadedAt) /\ IsSet(session.manifestRequestedAt)
            THEN Exactly(p.manifest_latency_ms,
                         Between(session.manifestLoadedAt, session.manifestRequestedAt))
            ELSE p.manifest_latency_ms = None
       /\ p.buffering_events = session.bufferingEvents]_vars

\* C29: every payload a step dispatches carries the differences of the
\* timestamps of the session it reports, each rounded to the nearest whole
\* millisecond: first_frame_ms from firstFrameAt - mountTime; total_startup_ms
\* from firstFrameAt - playbackRequestedAt where a play request was recorded, and
\* equal to first_frame_ms elsewhere; manifest_latency_ms from manifestLoadedAt -
\* manifestRequestedAt where both are set, and absent elsewhere;
\* buffering_events is the session's counter.
C29_PayloadRoundedLatencies ==
  [][\A i \in 1..Len(outbox') :
       LET p == outbox'[i].payload IN
       /\ p.session_id = session.sessionId
       /\ Nearest(p.first_frame_ms, Between(session.firstFrameAt, session.mountTime))
       /\ IF IsSet(session.playbackRequestedAt)
            THEN Nearest(p.total_startup_ms,
                         Between(session.firstFrameAt, session.playbackRequestedAt))
            ELSE p.total_startup_ms = p.first_frame_ms
       /\ IF IsSet(session.manifestLoadedAt) /\ IsSet(session.manifestRequestedAt)
            THEN Nearest(p.manifest_latency_ms,
                         Between(session.manifestLoadedAt, session.manifestRequestedAt))
            ELSE p.manifest_latency_ms = None
       /\ p.buffering_events = session.bufferingEvents]_vars

\* A payload of a session whose first frame came half a millisecond after the
\* mount and at the instant of the play request, after one stall: it reports a
\* first-frame latency of 1 ms and a startup latency of 0 ms.
C29_Witness ==
  /\ Len(outbox) = 1
  /\ outbox[1].payload.first_frame_ms = Some(1)
  /\ outbox[1].payload.total_startup_ms = Some(0)
  /\ outbox[1].payload.buffering_events = 1

\* C30: while the player plays, a pointer event (mouse enter, mouse move) leaves
\* a timeout with the full delay ahead of it, whether or not the controls were
\* showing; so the step that hides the controls comes no sooner than the full
\* delay after the latest pointer event.
C30_PointerRestartsAutoHide ==
  [][/\ (isPlaying /\ PointerEvent) => controls'.timer = Some(HideSteps)
     /\ (controls.show /\ ~controls'.show) => controls'.idle = HideSteps]_vars

\* C31: while isPlaying is false no auto-hide timeout is pending, and the
\* controls are hidden only by a step taken while isPlaying is true.
C31_NoAutoHideWhilePaused ==
  [][/\ ~isPlaying' => controls'.timer = None
     /\ (controls.show /\ ~controls'.show) => isPlaying]_vars

\* Playback was requested and has been paused since; a pointer event came and
\* one step of the delay has passed with the controls showing and no timeout.
C31_Witness ==
  /\ mounted
  /\ IsSet(session.playbackRequestedAt)
  /\ ~isPlaying
  /\ controls = [show |-> TRUE, timer |-> None, idle |-> 1]

\* The classification C32 describes: every cache header is read.
AnyHeader(h, words) ==
  \E v \in {h.cf_cache_status, h.x_cache, h.x_cache_status, h.x_served_by, h.age} :
    \E w \in words : Includes(v, w)

ClaimedDelivery(h) ==
  IF AnyHeader(h, {"hit", "stale"}) THEN "edge_cache"
  ELSE IF AnyHeader(h, {"miss", "bypass", "dynamic"}) THEN "origin"
  ELSE IF h.age # <<>> /\ isFinite(ParseInt(h.age)) /\ ParseInt(h.age).n > 0
    THEN "edge_cache"
    ELSE Undefined

\* C32: for every combination of the five cache headers, the class the manifest's
\* response gives a session that has none is edge_cache if any header says hit or
\* stale, else origin if any says miss, bypass or dynamic, else edge_cache if age
\* is positive, and none otherwise.
C32_HeaderClassification ==
  [][\A h \in HeaderSets :
       (session.deliverySource = Undefined
          /\ ManifestLoaded(extractDeliverySource(h), NoMatch))
         => session'.deliverySource = ClaimedDelivery(h)]_vars

\* t is within 5% of e.
Within5(t, e) ==
  LET diff == IF t >= e THEN t - e ELSE e - t IN diff * 100 < e * 5

\* The classes C33 allows for an entry: disk_cache for no transfer and a decoded
\* body, edge_cache for a transfer within 5% of the encoded body, origin for any
\* other transfer, and some class for every entry.
ClaimedSizeClasses(entry) ==
  IF entry.transferSize = 0 /\ entry.decodedBodySize > 0 THEN {"disk_cache"}
  ELSE IF entry.transferSize # 0 /\ Within5(entry.transferSize, entry.encodedBodySize)
    THEN {"edge_cache"}
  ELSE IF entry.transferSize # 0 THEN {"origin"}
  ELSE {"disk_cache", "edge_cache", "origin"}

\* C33: for every entry, the class its capture gives a session that has none is
\* the one the sizes call for, and is never absent.
C33_SizeClassification ==
  [][\A m \in SizeEntries :
       (session.deliverySource = Undefined /\ HandleCanPlay(m))
         => session'.deliverySource \in ClaimedSizeClasses(m)]_vars

\* C34: a payload goes out through navigator.sendBeacon only when its reason is
\* "beforeunload"; the payloads of source_change, ended, error and unmount go
\* through apiService.recordPlaybackMetric.
C34_BeaconOnlyOnUnload ==
  \A i \in 1..Len(outbox) :
    outbox[i].channel = "sendBeacon" => outbox[i].payload.reason = "beforeunload"

\* C35: a step replaces the session (fresh sessionId, bufferingEvents 0,
\* metricsSent false, no timestamp but mountTime and what the bind itself
\* stamps) exactly when it binds another source; a change of videoId alone
\* keeps the session.
C35_OneSessionPerSource ==
  [][/\ session'.sessionId # session.sessionId <=> src' # src
     /\ src' # src =>
          /\ session'.bufferingEvents = 0
          /\ ~session'.metricsSent
          /\ session'.manifestLoadedAt = None
          /\ session'.playbackRequestedAt = None
          /\ session'.firstFrameAt = None]_vars

\* C36: the Buffering indication is on only while the player is playing.
C36_BufferingOnlyWhilePlaying == isBuffering => isPlaying

\* C37: a BUFFER_APPENDED signal does not resume an element that is paused when
\* it arrives, and assigns no captured position when the latest quality command
\* was "auto".
C37_NoStaleRestore ==
  [][BufferAppended
       => (/\ vPaused => vPaused'
           /\ lastCommand = Auto => hls'.seeks = <<>>)]_vars

\* C38: every payload a step dispatches carries the videoId that was bound
\* while the session it reports was running, which is the videoId of the state
\* the step starts in: when src and videoId change in one commit, the flushed
\* payload reports the replaced session under the old videoId.
C38_PayloadCarriesBoundVideoId ==
  [][\A i \in 1..Len(outbox') :
       /\ outbox'[i].payload.video_id = videoId
       /\ outbox'[i].payload.session_id = session.sessionId]_vars

\* C38: a commit that changed src and videoId together has just flushed the
\* replaced session: the element was given the new resource, the session is
\* the next one, and the payload names the previous videoId.
C38_Witness ==
  /\ Len(outbox) = 1
  /\ outbox[1].payload.video_id # videoId
  /\ outbox[1].payload.session_id + 1 = session.sessionId
  /\ vPhase = "assigned"
  /\ session.firstFrameAt = None

(***************************************************************************)
(* SpecLoading: a bind followed by the events the runtime and the element  *)
(* deliver for it, under fair delivery.                                    *)
(***************************************************************************)
\* hls.js emits MANIFEST_LOADED and MANIFEST_PARSED only while it has not failed:
\* a fatal manifestLoadError or manifestParsingError ends the load, and the
\* component restarts none (it calls neither startLoad nor loadSource again).
RuntimeDelivers ==
  \/ ~hls.fatal /\ ManifestLoaded(Undefined, NoMatch)
  \/ ~hls.fatal /\ ManifestParsed(<<480, 1080, 720>>)

\* The element fires loadstart for the resource it was given, and
\* loadedmetadata once it has data: from a failed instance it gets none.
ElementDelivers ==
  \/ HandleLoadStart
  \/ (hls.live => ~hls.fatal) /\ HandleLoadedMetadata(Num(MaxDuration), <<>>, NoMatch)

LoadingNext ==
  \/ \E s \in LifecycleSources : PropsChange(s, videoId)
  \/ RuntimeDelivers
  \/ ElementDelivers
  \/ HlsFatalError
  \/ TogglePlay
  \/ HandlePlay
  \/ HandlePause
  \/ HandleCanPlay(NoMatch)
  \/ HandleError

\* An event that is pending is delivered; a failure of the runtime or of the
\* element (HlsFatalError, HandleError) may never happen.
SpecLoading ==
  /\ LifecycleInit
  /\ [][LoadingNext]_vars
  /\ WF_vars(RuntimeDelivers)
  /\ WF_vars(ElementDelivers)

\* C39: whenever the player is Loading, it later is not, or shows an error.
C39_EventuallyLeavesLoading == isLoading ~> (~isLoading \/ error # "")

\* The labels of the levels of the bound source's manifest: those of the live
\* instance once it has parsed it, none for a source that has no manifest or
\* whose manifest is not parsed yet.
BoundManifestLabels ==
  IF hls.live /\ hls.manifest = "parsed"
    THEN {Label(hls.levels[i]) : i \in 1..Len(hls.levels)}
    ELSE {}

\* C40: while the player is mounted, every entry of the quality list the menu
\* maps over is "auto" or the label of a level of the bound source's manifest.
C40_QualitiesOfBoundSource ==
  mounted =>
    \A i \in 1..Len(availableQualities) :
      availableQualities[i] = Auto \/ availableQualities[i] \in BoundManifestLabels

====
